---- MODULE Spec2Model ----
(***************************************************************************)
(* Model of the arbscan core (src/src/arbscan): the fee model and edge     *)
(* calculator (edge.py), Kelly sizing (sizing.py), the event tag matcher   *)
(* (matcher.py), the canonical schema (market_schema.py) and the venue     *)
(* normalizers (normalizer.py).                                            *)
(*                                                                         *)
(* Representation.                                                         *)
(*  - A Python str is the sequence of its characters, so that              *)
(*    str.capitalize / str.lower are computed and not assumed.             *)
(*  - Python's None is the value None below, which is no string.           *)
(*  - A Decimal d of the fee and edge pipeline is the integer d * ONE      *)
(*    (ONE = 10^4).  Quote prices and fees are drawn in whole cents, so    *)
(*    every sum and product of edge.py has at most 5 significant digits    *)
(*    and is exact both under decimal's default precision (28) and under   *)
(*    the precision 6 that sizing.py sets.                                 *)
(*  - The Decimal that kelly returns is a record [coef, exp] standing for  *)
(*    coef * 10^exp, rounded to the context precision as decimal does.     *)
(*  - A dict with str keys (a venue payload, a JSON object) is a function  *)
(*    on its keys; a str read as a number or a date is a record naming     *)
(*    what its text spells, so that parsing can succeed or fail.           *)
(*  - An int where a str may stand too is the pair <<"int", n>>.           *)
(***************************************************************************)
EXTENDS Integers, Sequences, FiniteSets, TLC

VARIABLES
    FEE_DATA,   \* edge._FEE_DATA: the fee table loaded at import
    REGISTRY,   \* matcher._REGISTRY: the event registry loaded at import
    pc,         \* "idle" (no call in progress) or "returned"
    call,       \* the call the caller made last: function name and arguments
    ret,        \* what that call gave back: a return value or a raised error
    context,    \* decimal.getcontext().prec of each thread
    effects     \* what the last call did to the world outside, in order:
                \* HTTP requests, sleeps, rows saved, alerts sent, lines logged

vars == <<FEE_DATA, REGISTRY, pc, call, ret, context, effects>>

----------------------------------------------------------------------------
(* Python values *)

None == <<"<None>">>

ascii_lowercase == <<"a","b","c","d","e","f","g","h","i","j","k","l","m","n","o","p","q","r","s","t","u","v","w","x","y","z">>
ascii_uppercase == <<"A","B","C","D","E","F","G","H","I","J","K","L","M","N","O","P","Q","R","S","T","U","V","W","X","Y","Z">>

\* position of character c in alphabet, 0 when it is not in it
index_of(c, alphabet) ==
    IF \E i \in DOMAIN alphabet : alphabet[i] = c
    THEN CHOOSE i \in DOMAIN alphabet : alphabet[i] = c
    ELSE 0

char_upper(c) ==
    IF index_of(c, ascii_lowercase) > 0
    THEN ascii_uppercase[index_of(c, ascii_lowercase)]
    ELSE c

char_lower(c) ==
    IF index_of(c, ascii_uppercase) > 0
    THEN ascii_lowercase[index_of(c, ascii_uppercase)]
    ELSE c

\* str.lower(): every character lower-cased
lower(s) == [i \in DOMAIN s |-> char_lower(s[i])]

\* str.capitalize(): first character upper-cased, all the others lower-cased
capitalize(s) ==
    [i \in DOMAIN s |-> IF i = 1 THEN char_upper(s[i]) ELSE char_lower(s[i])]

\* dict.get(key, default)
dict_get(d, key, default) == IF key \in DOMAIN d THEN d[key] ELSE default

s_Kalshi == <<"K","a","l","s","h","i">>
s_kalshi == <<"k","a","l","s","h","i">>
s_KALSHI == <<"K","A","L","S","H","I">>
s_Nadex == <<"N","a","d","e","x">>
s_nadex == <<"n","a","d","e","x">>
s_NADEX == <<"N","A","D","E","X">>
s_PredictIt == <<"P","r","e","d","i","c","t","I","t">>
s_predictit == <<"p","r","e","d","i","c","t","i","t">>
s_PREDICTIT == <<"P","R","E","D","I","C","T","I","T">>
s_Polymarket == <<"P","o","l","y","m","a","r","k","e","t">>
s_tag == <<"t","a","g">>
s_description == <<"d","e","s","c","r","i","p","t","i","o","n">>
s_TEST_Kalshi == <<"T","E","S","T","-","K","a","l","s","h","i">>
s_TEST_PredictIt == <<"T","E","S","T","-","P","r","e","d","i","c","t","I","t">>
s_TEST_Nadex == <<"T","E","S","T","-","N","a","d","e","x">>
s_TEST_TAG == <<"T","E","S","T","-","T","A","G">>
s_OTHER_TAG == <<"O","T","H","E","R","-","T","A","G">>
s_BTC_31MAY70K == <<"B","T","C","-","3","1","M","A","Y","7","0","K">>
s_BTC_70K_31MAY25 == <<"B","T","C","-","7","0","K","-","3","1","M","A","Y","2","5">>
s_BTC_70000_31MAY25 == <<"B","T","C","-","7","0","0","0","0","-","3","1","M","A","Y","2","5">>
s_SPX_31MAY5500 == <<"S","P","X","-","3","1","M","A","Y","5","5","0","0">>
s_SPX_5500_31MAY25 == <<"S","P","X","-","5","5","0","0","-","3","1","M","A","Y","2","5">>
s_FOMC_JUN25BP == <<"F","O","M","C","-","J","U","N","2","5","B","P">>
s_FED_25BP_JUN25 == <<"F","E","D","-","2","5","B","P","-","J","U","N","2","5">>
s_8973 == <<"8","9","7","3">>

digits == <<"0","1","2","3","4","5","6","7","8","9">>

\* str(n) of an int n >= 0
RECURSIVE str_int(_)
str_int(n) ==
    IF n < 10 THEN <<digits[n + 1]>>
    ELSE str_int(n \div 10) \o <<digits[(n % 10) + 1]>>

\* the int n where a str may stand too (a str is a sequence of characters)
py_int(n) == <<"int", n>>

\* isinstance(v, int), for v a str or an int
isinstance_int(v) == Len(v) = 2 /\ v[1] = "int"

\* None where a dict is expected (an optional dict argument left out)
None_dict == (None :> None)

\* the dict with no key
EMPTY_DICT == [k \in {} |-> None]

\* f"{a}:{b}"
colon_join(a, b) == a \o <<":">> \o b

----------------------------------------------------------------------------
(* Event tag matcher: matcher.py *)

VENUES == <<s_kalshi, s_nadex, s_predictit>>

\* one row of the registry
registry_entry(tag, kalshi, nadex, predictit) ==
    (s_tag :> tag) @@ (s_description :> <<>>) @@
    (s_kalshi :> kalshi) @@ (s_nadex :> nadex) @@ (s_predictit :> predictit)

\* the registry of the matcher tests
MOCK_REGISTRY ==
    << registry_entry(s_BTC_31MAY70K, s_BTC_70K_31MAY25, s_BTC_70000_31MAY25, None),
       registry_entry(s_SPX_31MAY5500, s_SPX_5500_31MAY25, s_SPX_5500_31MAY25, None),
       registry_entry(s_FOMC_JUN25BP, s_FED_25BP_JUN25, None, s_8973) >>

\* {entry[venue]: entry["tag"] for entry in _REGISTRY if entry.get(venue)
\* is not None}: of two rows with one symbol the later one stays
venue_to_tag_map(venue) ==
    LET rows == {i \in DOMAIN REGISTRY : dict_get(REGISTRY[i], venue, None) # None}
        last(symbol) ==
            CHOOSE i \in rows :
                /\ REGISTRY[i][venue] = symbol
                /\ \A j \in rows : REGISTRY[j][venue] = symbol => j <= i
    IN  [symbol \in {REGISTRY[i][venue] : i \in rows} |->
            REGISTRY[last(symbol)][s_tag]]

VENUE_TO_TAG_MAPS ==
    [venue \in {VENUES[i] : i \in DOMAIN VENUES} |-> venue_to_tag_map(venue)]

tag_from_any_venue(exchange, symbol) ==
    LET tagged == {v \in DOMAIN VENUE_TO_TAG_MAPS : symbol \in DOMAIN VENUE_TO_TAG_MAPS[v]}
    IN  IF exchange \notin DOMAIN VENUE_TO_TAG_MAPS \/ tagged = {} THEN None
        ELSE IF exchange \in tagged THEN VENUE_TO_TAG_MAPS[exchange][symbol]
        ELSE VENUE_TO_TAG_MAPS[CHOOSE v \in tagged : TRUE][symbol]

tag_from(exchange, symbol) ==
    LET symbol_1 == IF exchange = s_predictit /\ isinstance_int(symbol)
                    THEN str_int(symbol[2]) ELSE symbol
        venue_map == dict_get(VENUE_TO_TAG_MAPS, exchange, EMPTY_DICT)
    IN  dict_get(venue_map, symbol_1, None)

venues_for_nulls_kept(tag) ==
    LET rows == {i \in DOMAIN REGISTRY : REGISTRY[i][s_tag] = tag}
    IN  IF rows = {} THEN EMPTY_DICT
        ELSE LET entry == REGISTRY[CHOOSE i \in rows : \A j \in rows : i <= j]
             IN  [venue \in DOMAIN entry \ {s_tag, s_description} |-> entry[venue]]

\* venues_for(tag): the first row with the tag, without "tag", "description"
\* and the venues whose symbol is None; {} when no row has the tag
venues_for(tag) ==
    LET rows == {i \in DOMAIN REGISTRY : REGISTRY[i][s_tag] = tag}
    IN  IF rows = {} THEN EMPTY_DICT
        ELSE LET entry == REGISTRY[CHOOSE i \in rows : \A j \in rows : i <= j]
             IN  [venue \in {k \in DOMAIN entry \ {s_tag, s_description} :
                                 entry[k] # None} |-> entry[venue]]

----------------------------------------------------------------------------
(* Decimal, fixed point *)

ONE == 10000

Cent == ONE \div 100

\* Decimal multiplication; exact on the whole-cent operands of the model
dec_mul(a, b) == (a * b) \div ONE

\* max(a, b, c)
max3(a, b, c) ==
    IF a >= b /\ a >= c THEN a ELSE IF b >= c THEN b ELSE c

----------------------------------------------------------------------------
(* Calls and their outcomes *)

\* getcontext().prec = 6
PRECISION == 6

\* the precision of decimal.DefaultContext, which a new thread starts from
DEFAULT_PREC == 28

\* the thread that imports the package
MainThread == "MainThread"

\* the decimal contexts when only the importing thread runs
MAIN_CONTEXT == (MainThread :> PRECISION)

NoCall == [fn |-> "none"]
NoRet == [kind |-> "none"]

\* the call returned v
Return(v) == [kind |-> "return", value |-> v]

\* the call raised exc(msg)
Raise(exc, msg) == [kind |-> "raise", exc |-> exc, msg |-> msg]

----------------------------------------------------------------------------
(* Fee model: edge.py *)

DEFAULT_FEE == [entry_fee |-> 0, exit_fee_pct |-> 0]

\* the venue names of the canonical schema
SchemaExchanges == {s_Kalshi, s_Nadex, s_PredictIt}

get_fee_config_default_fee_charged(exchange) ==
    LET normalized_exchange == capitalize(exchange)
        fee_data == dict_get(FEE_DATA, normalized_exchange,
                             [entry_fee |-> 2 * Cent, exit_fee_pct |-> 0])
    IN  [entry_fee    |-> dict_get(fee_data, "entry_fee", 0),
         exit_fee_pct |-> dict_get(fee_data, "exit_fee_pct", 0)]

get_fee_config(exchange) ==
    LET normalized_exchange == capitalize(exchange)
        fee_data == dict_get(FEE_DATA, normalized_exchange, DEFAULT_FEE)
    IN  [entry_fee    |-> dict_get(fee_data, "entry_fee", 0),
         exit_fee_pct |-> dict_get(fee_data, "exit_fee_pct", 0)]

adjusted_price_no_cap(exchange, side, price) ==
    LET fee_config == get_fee_config(exchange)
        entry_fee == fee_config.entry_fee
        exit_fee_pct == fee_config.exit_fee_pct
    IN  IF side = "YES"
        THEN LET entry_cost == price + entry_fee
             IN  entry_cost + dec_mul(ONE - entry_cost, exit_fee_pct)
        ELSE LET entry_cost == (ONE - price) + entry_fee
             IN  entry_cost + dec_mul(price, exit_fee_pct)

adjusted_price_fee_rebated(exchange, side, price) ==
    LET fee_config == get_fee_config(exchange)
        entry_fee == fee_config.entry_fee
        exit_fee_pct == fee_config.exit_fee_pct
    IN  IF side = "YES"
        THEN LET entry_cost == price + entry_fee
             IN  IF entry_cost > ONE
                 THEN ONE
                 ELSE entry_cost - dec_mul(ONE - entry_cost, exit_fee_pct)
        ELSE LET entry_cost == (ONE - price) + entry_fee
             IN  IF entry_cost > ONE
                 THEN ONE
                 ELSE entry_cost - dec_mul(price, exit_fee_pct)

adjusted_price(exchange, side, price) ==
    LET fee_config == get_fee_config(exchange)
        entry_fee == fee_config.entry_fee
        exit_fee_pct == fee_config.exit_fee_pct
    IN  IF side = "YES"
        THEN LET entry_cost == price + entry_fee
             IN  IF entry_cost > ONE
                 THEN ONE
                 ELSE LET profit_fee == dec_mul(ONE - entry_cost, exit_fee_pct)
                      IN  entry_cost + profit_fee
        ELSE LET entry_cost == (ONE - price) + entry_fee
             IN  IF entry_cost > ONE
                 THEN ONE
                 ELSE LET profit_fee == dec_mul(price, exit_fee_pct)
                      IN  entry_cost + profit_fee

----------------------------------------------------------------------------
(* Configurations and inputs *)

MaxEntryFeeCents == 3

EntryFees == {k * Cent : k \in 0..MaxEntryFeeCents}

ExitFeePcts == {0, 2 * Cent, 10 * Cent, 50 * Cent, ONE}

\* every whole-cent price a Quote accepts
Prices == {k * Cent : k \in 0..100}

\* the table a failed load leaves behind
NO_FEES == [k \in {} |-> DEFAULT_FEE]

\* the fee table of the edge tests
FIXTURE_FEES ==
    (s_Kalshi    :> [entry_fee |-> 2 * Cent, exit_fee_pct |-> 2 * Cent]) @@
    (s_PredictIt :> [entry_fee |-> 0,        exit_fee_pct |-> 10 * Cent]) @@
    (s_Nadex     :> [entry_fee |-> 3 * Cent, exit_fee_pct |-> 0])

\* tables that configure one venue, under its schema name
OneVenueFees ==
    {key :> [entry_fee |-> e, exit_fee_pct |-> x] :
        key \in SchemaExchanges, e \in EntryFees, x \in ExitFeePcts}

FeeTables == {NO_FEES, FIXTURE_FEES} \cup OneVenueFees

\* exchange names a caller may pass to the fee model
ExchangeNames ==
    {s_Kalshi, s_kalshi, s_KALSHI, s_Nadex, s_nadex, s_NADEX,
     s_PredictIt, s_predictit, s_PREDICTIT, s_Polymarket}


----------------------------------------------------------------------------
(* Actions *)

\* a caller evaluates adjusted_price(exchange, side, price)
Call_adjusted_price ==
    /\ pc = "idle"
    /\ \E exchange \in ExchangeNames, side \in {"YES", "NO"}, price \in Prices :
        /\ call' = [fn |-> "adjusted_price", exchange |-> exchange,
                    side |-> side, price |-> price]
        /\ ret' = Return(adjusted_price(exchange, side, price))
    /\ pc' = "returned"
    /\ UNCHANGED <<FEE_DATA, REGISTRY, context, effects>>

\* the caller takes the result; nothing of the call is kept
Done ==
    /\ pc = "returned"
    /\ pc' = "idle"
    /\ call' = NoCall
    /\ ret' = NoRet
    /\ effects' = <<>>
    /\ UNCHANGED <<FEE_DATA, REGISTRY, context>>

InitFee ==
    /\ FEE_DATA \in FeeTables
    /\ REGISTRY = <<>>
    /\ pc = "idle"
    /\ call = NoCall
    /\ ret = NoRet
    /\ context = MAIN_CONTEXT
    /\ effects = <<>>

NextFee == Call_adjusted_price \/ Done

SpecFee == InitFee /\ [][NextFee]_vars

----------------------------------------------------------------------------
(* Fee model: properties *)

AfterAdjustedPrice == pc = "returned" /\ call.fn = "adjusted_price"

\* the fee formula of the specification, for entry fee e and exit fee x
FeeFormula(e, x, side, p) ==
    IF side = "YES"
    THEN LET c == p + e
         IN  IF c > ONE THEN ONE ELSE c + dec_mul(ONE - c, x)
    ELSE LET c == (ONE - p) + e
         IN  IF c > ONE THEN ONE ELSE c + dec_mul(p, x)

\* the table has no entry for the exchange under any letter case
AbsentFromTable(exchange) ==
    \A k \in DOMAIN FEE_DATA : lower(k) # lower(exchange)

\* C5: adjusted_price returns the fee formula applied to the entry_fee and
\* exit_fee_pct the fee lookup gives for the exchange: YES costs c = p + e,
\* NO costs c = (1 - p) + e, the result is 1 when c > 1 and else c plus the
\* exit fee on (1 - c) for YES and on p for NO; Kalshi YES at 0.60 with
\* e = 0.02 and x = 0 gives exactly 0.62.
C5_AdjustedPriceFollowsFormula ==
    AfterAdjustedPrice =>
        LET f == get_fee_config(call.exchange)
        IN  /\ ret = Return(FeeFormula(f.entry_fee, f.exit_fee_pct,
                                       call.side, call.price))
            /\ (/\ call.exchange = s_Kalshi
                /\ call.side = "YES"
                /\ call.price = 60 * Cent
                /\ f = [entry_fee |-> 2 * Cent, exit_fee_pct |-> 0])
               => ret.value = 62 * Cent

\* C5 witness: Kalshi YES at 0.60 priced under entry_fee 0.02, exit_fee_pct 0
C5_Witness ==
    /\ AfterAdjustedPrice
    /\ call.exchange = s_Kalshi
    /\ call.side = "YES"
    /\ call.price = 60 * Cent
    /\ get_fee_config(s_Kalshi) = [entry_fee |-> 2 * Cent, exit_fee_pct |-> 0]
    /\ ret.value = 62 * Cent

\* C6: adjusted_price never returns more than 1.
C6_AdjustedPriceAtMostOne ==
    AfterAdjustedPrice => (ret.kind = "return" /\ ret.value <= ONE)

\* C7: with non-negative fees, fees never make a position cheaper: a YES
\* position costs at least p and a NO position at least 1 - p.
C7_FeesNeverCheaper ==
    AfterAdjustedPrice =>
        /\ ret.kind = "return"
        /\ call.side = "YES" => ret.value >= call.price
        /\ call.side = "NO" => ret.value >= ONE - call.price

\* C7 witness: a NO position priced with a positive entry fee and a positive
\* exit fee, strictly dearer than 1 - p
C7_Witness ==
    /\ AfterAdjustedPrice
    /\ call.side = "NO"
    /\ get_fee_config(call.exchange).entry_fee > 0
    /\ get_fee_config(call.exchange).exit_fee_pct > 0
    /\ ret.value > ONE - call.price

\* C8: the fee lookup is case-insensitive: called with a schema venue name
\* (Kalshi, Nadex, PredictIt) in any letter case, adjusted_price applies the
\* fees the table configures under that venue name.
C8_FeeLookupCaseInsensitive ==
    AfterAdjustedPrice =>
        \A venue \in SchemaExchanges :
            (lower(call.exchange) = lower(venue) /\ venue \in DOMAIN FEE_DATA)
            => ret = Return(FeeFormula(FEE_DATA[venue].entry_fee,
                                       FEE_DATA[venue].exit_fee_pct,
                                       call.side, call.price))

\* C9: for an exchange the fee table has no entry for (and so for every
\* exchange when the table could not be loaded) adjusted_price returns
\* without raising and applies no fee: p for YES and 1 - p for NO.
C9_AbsentExchangeZeroFees ==
    (AfterAdjustedPrice /\ AbsentFromTable(call.exchange)) =>
        ret = Return(IF call.side = "YES" THEN call.price
                     ELSE ONE - call.price)

\* C9 witness: a venue missing from a table that configures another venue
C9_Witness ==
    /\ AfterAdjustedPrice
    /\ FEE_DATA # NO_FEES
    /\ AbsentFromTable(call.exchange)
    /\ call.side = "NO"
    /\ ret.value = ONE - call.price

----------------------------------------------------------------------------
(* Canonical schema: market_schema.py *)

EventKey(exchange, symbol, question, expiry, strike, settlement) ==
    [exchange |-> exchange, symbol |-> symbol, question |-> question,
     expiry |-> expiry, strike |-> strike, settlement |-> settlement]

Quote(side, price, size, ts) ==
    [side |-> side, price |-> price, size |-> size, ts |-> ts]

MarketSnapshot(key, best_yes, best_no) ==
    [key |-> key, best_yes |-> best_yes, best_no |-> best_no]

\* a timezone-aware datetime
TEST_DATE == [tzinfo |-> "UTC"]

\* the snapshot factory of the edge tests, with the symbol as a parameter
create_snapshot(exchange, symbol, yes_price, no_price) ==
    MarketSnapshot(
        EventKey(exchange, symbol, <<>>, TEST_DATE, None, "boolean"),
        Quote("YES", yes_price, 100, TEST_DATE),
        Quote("NO", no_price, 100, TEST_DATE))

\* getattr(obj, name, default)
getattr(obj, name, default) ==
    IF name \in DOMAIN obj THEN obj[name] ELSE default

----------------------------------------------------------------------------
(* Edge calculator: edge.py *)

get_tag(snapshot, tag_map) ==
    IF tag_map # None_dict
    THEN LET key == colon_join(snapshot.key.exchange, snapshot.key.symbol)
         IN  dict_get(tag_map, key, None)
    ELSE getattr(snapshot.key, "tag", None)

\* the better of the two cross strategies, or 0
best_edge(yes_price_a, no_price_a, yes_price_b, no_price_b) ==
    LET edge_a_yes_b_no == (ONE - yes_price_a) - no_price_b
        edge_b_yes_a_no == (ONE - yes_price_b) - no_price_a
    IN  max3(edge_a_yes_b_no, edge_b_yes_a_no, 0)

calc_edge_no_floor(snapshot_a, snapshot_b, tag_map) ==
    LET tag_a == get_tag(snapshot_a, tag_map)
        tag_b == get_tag(snapshot_b, tag_map)
        yes_price_a == adjusted_price(snapshot_a.key.exchange, "YES", snapshot_a.best_yes.price)
        no_price_a == adjusted_price(snapshot_a.key.exchange, "NO", snapshot_a.best_no.price)
        yes_price_b == adjusted_price(snapshot_b.key.exchange, "YES", snapshot_b.best_yes.price)
        no_price_b == adjusted_price(snapshot_b.key.exchange, "NO", snapshot_b.best_no.price)
        edge_a_yes_b_no == (ONE - yes_price_a) - no_price_b
        edge_b_yes_a_no == (ONE - yes_price_b) - no_price_a
    IN  IF tag_a = None \/ tag_b = None
        THEN Raise("ValueError", <<"missing tags">>)
        ELSE IF tag_a # tag_b
        THEN Raise("ValueError", <<"tags differ", tag_a, tag_b>>)
        ELSE Return(IF edge_a_yes_b_no >= edge_b_yes_a_no
                    THEN edge_a_yes_b_no ELSE edge_b_yes_a_no)

calc_edge_one_direction(snapshot_a, snapshot_b, tag_map) ==
    LET tag_a == get_tag(snapshot_a, tag_map)
        tag_b == get_tag(snapshot_b, tag_map)
        yes_price_a == adjusted_price(snapshot_a.key.exchange, "YES", snapshot_a.best_yes.price)
        no_price_b == adjusted_price(snapshot_b.key.exchange, "NO", snapshot_b.best_no.price)
        edge_a_yes_b_no == (ONE - yes_price_a) - no_price_b
    IN  IF tag_a = None \/ tag_b = None
        THEN Raise("ValueError", <<"missing tags">>)
        ELSE IF tag_a # tag_b
        THEN Raise("ValueError", <<"tags differ", tag_a, tag_b>>)
        ELSE Return(max3(edge_a_yes_b_no, 0, 0))

calc_edge_no_tag_comparison(snapshot_a, snapshot_b, tag_map) ==
    LET tag_a == get_tag(snapshot_a, tag_map)
        tag_b == get_tag(snapshot_b, tag_map)
        yes_price_a == adjusted_price(snapshot_a.key.exchange, "YES", snapshot_a.best_yes.price)
        no_price_a == adjusted_price(snapshot_a.key.exchange, "NO", snapshot_a.best_no.price)
        yes_price_b == adjusted_price(snapshot_b.key.exchange, "YES", snapshot_b.best_yes.price)
        no_price_b == adjusted_price(snapshot_b.key.exchange, "NO", snapshot_b.best_no.price)
    IN  IF tag_a = None \/ tag_b = None
        THEN Raise("ValueError", <<"missing tags">>)
        ELSE Return(best_edge(yes_price_a, no_price_a, yes_price_b, no_price_b))

\* calc_edge with the tag checks left out
calc_edge_untagged(snapshot_a, snapshot_b, tag_map) ==
    LET yes_price_a == adjusted_price(snapshot_a.key.exchange, "YES", snapshot_a.best_yes.price)
        no_price_a == adjusted_price(snapshot_a.key.exchange, "NO", snapshot_a.best_no.price)
        yes_price_b == adjusted_price(snapshot_b.key.exchange, "YES", snapshot_b.best_yes.price)
        no_price_b == adjusted_price(snapshot_b.key.exchange, "NO", snapshot_b.best_no.price)
    IN  Return(best_edge(yes_price_a, no_price_a, yes_price_b, no_price_b))

calc_edge(snapshot_a, snapshot_b, tag_map) ==
    LET tag_a == get_tag(snapshot_a, tag_map)
        tag_b == get_tag(snapshot_b, tag_map)
        yes_price_a == adjusted_price(snapshot_a.key.exchange, "YES", snapshot_a.best_yes.price)
        no_price_a == adjusted_price(snapshot_a.key.exchange, "NO", snapshot_a.best_no.price)
        yes_price_b == adjusted_price(snapshot_b.key.exchange, "YES", snapshot_b.best_yes.price)
        no_price_b == adjusted_price(snapshot_b.key.exchange, "NO", snapshot_b.best_no.price)
    IN  IF tag_a = None \/ tag_b = None
        THEN Raise("ValueError", <<"missing tags">>)
        ELSE IF tag_a # tag_b
        THEN Raise("ValueError", <<"tags differ", tag_a, tag_b>>)
        ELSE Return(best_edge(yes_price_a, no_price_a, yes_price_b, no_price_b))

----------------------------------------------------------------------------
(* Edge calculator: configurations, inputs and actions *)

PriceSteps == 3

\* quote prices of the snapshots: PriceSteps + 1 whole-cent prices from 0 to 1
SnapshotPrices == {((k * 100) \div PriceSteps) * Cent : k \in 0..PriceSteps}

\* the tag map of the edge tests
MOCK_TAG_MAP ==
    (colon_join(s_Kalshi, s_TEST_Kalshi) :> s_TEST_TAG) @@
    (colon_join(s_PredictIt, s_TEST_PredictIt) :> s_TEST_TAG)

\* the same with a Nadex contract of another event
MOCK_TAG_MAP_3 ==
    MOCK_TAG_MAP @@ (colon_join(s_Nadex, s_TEST_Nadex) :> s_OTHER_TAG)

TagMaps == {None_dict, MOCK_TAG_MAP, MOCK_TAG_MAP_3}

\* (exchange, symbol) of the snapshots: the contracts of the edge tests and
\* two contracts the registry lists under one tag
SnapshotSymbols ==
    { <<s_Kalshi, s_TEST_Kalshi>>, <<s_PredictIt, s_TEST_PredictIt>>,
      <<s_Nadex, s_TEST_Nadex>>,
      <<s_Kalshi, s_BTC_70K_31MAY25>>, <<s_Nadex, s_BTC_70000_31MAY25>> }

Snapshots ==
    { create_snapshot(es[1], es[2], yes_price, no_price) :
        es \in SnapshotSymbols,
        yes_price \in SnapshotPrices, no_price \in SnapshotPrices }

\* Kalshi at entry_fee 0.02 and no exit fee, the other venues not configured
KALSHI_ONLY_FEES == (s_Kalshi :> [entry_fee |-> 2 * Cent, exit_fee_pct |-> 0])

EdgeFeeTables == {NO_FEES, FIXTURE_FEES, KALSHI_ONLY_FEES}

\* a caller evaluates calc_edge(snapshot_a, snapshot_b, tag_map)
Call_calc_edge ==
    /\ pc = "idle"
    /\ \E snapshot_a \in Snapshots, snapshot_b \in Snapshots, tag_map \in TagMaps :
        /\ call' = [fn |-> "calc_edge", snapshot_a |-> snapshot_a,
                    snapshot_b |-> snapshot_b, tag_map |-> tag_map]
        /\ ret' = calc_edge(snapshot_a, snapshot_b, tag_map)
    /\ pc' = "returned"
    /\ UNCHANGED <<FEE_DATA, REGISTRY, context, effects>>

InitEdge ==
    /\ FEE_DATA \in EdgeFeeTables
    /\ REGISTRY = MOCK_REGISTRY
    /\ pc = "idle"
    /\ call = NoCall
    /\ ret = NoRet
    /\ context = MAIN_CONTEXT
    /\ effects = <<>>

NextEdge == Call_calc_edge \/ Done

SpecEdge == InitEdge /\ [][NextEdge]_vars

----------------------------------------------------------------------------
(* Edge calculator: properties *)

AfterCalcEdge == pc = "returned" /\ call.fn = "calc_edge"

\* the tag calc_edge resolves for snapshot_a and for snapshot_b of the call
TagA == get_tag(call.snapshot_a, call.tag_map)
TagB == get_tag(call.snapshot_b, call.tag_map)

\* fee-adjusted price of one side of a snapshot, on the snapshot's exchange
adjYes(snapshot) ==
    adjusted_price(snapshot.key.exchange, "YES", snapshot.best_yes.price)
adjNo(snapshot) ==
    adjusted_price(snapshot.key.exchange, "NO", snapshot.best_no.price)

\* the two directional candidates of the call
CandidateAB == (ONE - adjYes(call.snapshot_a)) - adjNo(call.snapshot_b)
CandidateBA == (ONE - adjYes(call.snapshot_b)) - adjNo(call.snapshot_a)

\* the tag the registry lists for the snapshot's venue (lower-case venue key)
\* and symbol
RegistryTag(snapshot) ==
    tag_from(lower(snapshot.key.exchange), snapshot.key.symbol)

C2_EdgeSymmetric ==
    AfterCalcEdge =>
        LET swapped == calc_edge(call.snapshot_b, call.snapshot_a, call.tag_map)
        IN  /\ swapped.kind = ret.kind
            /\ ret.kind = "return" => swapped.value = ret.value

\* C2 witness: a positive edge between two different snapshots whose two
\* directions are worth different amounts
C2_Witness ==
    /\ AfterCalcEdge
    /\ call.snapshot_a # call.snapshot_b
    /\ CandidateAB # CandidateBA
    /\ ret.kind = "return"
    /\ ret.value > 0

\* C3: calc_edge raises, and returns no number, when a snapshot resolves to
\* no tag or the two tags differ; it returns a number only when both tags
\* are non-null and equal.
C3_EdgeRequiresMatchingTags ==
    AfterCalcEdge =>
        /\ (TagA = None \/ TagB = None) =>
                ret = Raise("ValueError", <<"missing tags">>)
        /\ (TagA # None /\ TagB # None /\ TagA # TagB) =>
                ret = Raise("ValueError", <<"tags differ", TagA, TagB>>)
        /\ ret.kind = "return" <=> (TagA # None /\ TagB # None /\ TagA = TagB)

\* C3 witness: two snapshots that both carry a tag, of different events
C3_Witness ==
    /\ AfterCalcEdge
    /\ TagA # None /\ TagB # None /\ TagA # TagB
    /\ ret.kind = "raise"

\* C4: called without a tag map, calc_edge resolves each snapshot's tag
\* through the registry, so for two snapshots whose venue symbols the
\* registry lists under one tag it returns the numeric edge.
C4_EdgeResolvesTagsThroughRegistry ==
    (/\ AfterCalcEdge
     /\ call.tag_map = None_dict
     /\ RegistryTag(call.snapshot_a) # None
     /\ RegistryTag(call.snapshot_a) = RegistryTag(call.snapshot_b))
    => ret.kind = "return"

----------------------------------------------------------------------------
(* Kelly sizing: sizing.py *)

RECURSIVE pow10(_)
pow10(n) == IF n = 0 THEN 1 ELSE 10 * pow10(n - 1)

abs(n) == IF n < 0 THEN -n ELSE n

\* the Decimal coef * 10^exp
Dec(coef, exp) == [coef |-> coef, exp |-> exp]

\* equal numbers get equal records: trailing zeros of coef go into exp
RECURSIVE dec_normalize(_, _)
dec_normalize(coef, exp) ==
    IF coef = 0 THEN Dec(0, 0)
    ELSE IF coef % 10 = 0 THEN dec_normalize(coef \div 10, exp + 1)
    ELSE Dec(coef, exp)

\* long division n / d of naturals, d > 0: digits are produced until coef has
\* prec significant digits or the division ends; r is the remainder left
RECURSIVE num_digits(_)
num_digits(n) == IF n = 0 THEN 0 ELSE 1 + num_digits(n \div 10)

RECURSIVE div_digits(_, _, _, _, _)
div_digits(coef, r, d, exp, prec) ==
    IF r = 0 \/ num_digits(coef) >= prec
    THEN [coef |-> coef, r |-> r, exp |-> exp]
    ELSE div_digits(coef * 10 + ((r * 10) \div d), (r * 10) % d, d, exp - 1, prec)

\* Decimal division n / d, d # 0, rounded half-even to prec significant
\* digits; n and d are fixed-point numbers of one scale with |n / d| < 10^prec
dec_div(n, d, prec) ==
    LET q == div_digits(abs(n) \div abs(d), abs(n) % abs(d), abs(d), 0, prec)
        up == \/ 2 * q.r > abs(d)
              \/ (2 * q.r = abs(d) /\ q.coef % 2 = 1)
        coef == IF up THEN q.coef + 1 ELSE q.coef
        sign == IF (n < 0) = (d < 0) THEN 1 ELSE -1
    IN  dec_normalize(sign * coef, q.exp)

\* f > Decimal("1")
dec_gt_one(f) ==
    IF f.coef <= 0 THEN FALSE
    ELSE IF f.exp >= 0 THEN f.coef * pow10(f.exp) > 1
    ELSE f.coef > pow10(-f.exp)

\* f < Decimal("0")
dec_negative(f) == f.coef < 0

kelly_no_clamp(edge, odds) ==
    IF edge <= 0
    THEN Return(Dec(0, 0))
    ELSE IF odds - ONE = 0
    THEN Raise("DivisionByZero", <<>>)
    ELSE Return(dec_div(dec_mul(edge, odds), odds - ONE, PRECISION))

kelly_odds_one_is_full_stake(edge, odds) ==
    IF edge <= 0
    THEN Return(Dec(0, 0))
    ELSE IF odds - ONE = 0
    THEN Return(Dec(1, 0))
    ELSE LET f == dec_div(dec_mul(edge, odds), odds - ONE, PRECISION)
         IN  IF dec_gt_one(f) THEN Return(Dec(1, 0)) ELSE Return(f)

\* kelly(edge, odds) evaluated by a thread whose decimal context has
\* precision prec: the division rounds to the precision of the calling thread
kelly_in_context(edge, odds, prec) ==
    IF edge <= 0
    THEN Return(Dec(0, 0))
    ELSE IF odds - ONE = 0
    THEN Raise("DivisionByZero", <<>>)
    ELSE LET f == dec_div(dec_mul(edge, odds), odds - ONE, prec)
         IN  IF dec_gt_one(f) THEN Return(Dec(1, 0)) ELSE Return(f)

\* kelly(edge, odds) evaluated by the thread that imported the module
kelly(edge, odds) == kelly_in_context(edge, odds, PRECISION)

MaxEdgeCents == 60

MaxOddsCents == 200

\* probability edges, in whole cents, of either sign
KellyEdges == {k * Cent : k \in (-MaxEdgeCents)..MaxEdgeCents}

\* payout ratios, in whole cents, from 0 up
KellyOdds == {k * Cent : k \in 0..MaxOddsCents}

\* a caller evaluates kelly(edge, odds)
Call_kelly ==
    /\ pc = "idle"
    /\ \E edge \in KellyEdges, odds \in KellyOdds :
        /\ call' = [fn |-> "kelly", edge |-> edge, odds |-> odds]
        /\ ret' = kelly(edge, odds)
    /\ pc' = "returned"
    /\ UNCHANGED <<FEE_DATA, REGISTRY, context, effects>>

InitKelly ==
    /\ FEE_DATA = NO_FEES
    /\ REGISTRY = <<>>
    /\ pc = "idle"
    /\ call = NoCall
    /\ ret = NoRet
    /\ context = MAIN_CONTEXT
    /\ effects = <<>>

NextKelly == Call_kelly \/ Done

SpecKelly == InitKelly /\ [][NextKelly]_vars

----------------------------------------------------------------------------
(* Kelly sizing: properties *)

AfterKelly == pc = "returned" /\ call.fn = "kelly"

\* C10: for every edge and every odds other than 1, kelly returns a value in
\* [0,1]: never negative and never greater than 1.
C10_KellyInUnitInterval ==
    (AfterKelly /\ call.odds # ONE) =>
        /\ ret.kind = "return"
        /\ ~dec_negative(ret.value)
        /\ ~dec_gt_one(ret.value)

\* the raw formula (edge * odds) / (odds - 1) exceeds 1, decided exactly
RawKellyExceedsOne(edge, odds) ==
    IF odds > ONE
    THEN dec_mul(edge, odds) > odds - ONE
    ELSE dec_mul(edge, odds) < odds - ONE

C12_KellyOddsOneAlwaysError ==
    (AfterKelly /\ call.odds = ONE) => ret.kind = "raise"

\* C12 as amended: with odds = 1 and edge > 0 kelly raises DivisionByZero and
\* returns no number; with odds = 1 and edge <= 0 it returns 0 before the
\* division is reached.
C12_KellyOddsOneErrorForPositiveEdge ==
    (AfterKelly /\ call.odds = ONE) =>
        /\ call.edge > 0 => ret = Raise("DivisionByZero", <<>>)
        /\ call.edge <= 0 => ret = Return(Dec(0, 0))

\* C12 witness: a positive edge at odds 1 ends in the error
C12_Witness ==
    /\ AfterKelly
    /\ call.odds = ONE
    /\ call.edge > 0
    /\ ret.kind = "raise"

----------------------------------------------------------------------------
(* Canonical schema: validation and serialisation, market_schema.py *)

ERR_MISSING_TZ == "Datetime must be timezone-aware"
ERR_PRICE_RANGE == "Price must be between 0 and 1"
ERR_WRONG_SIDE_YES == "best_yes quote must have YES side"
ERR_WRONG_SIDE_NO == "best_no quote must have NO side"

\* the tzinfo of a naive datetime (Python's None where a tzinfo is expected)
tz_None == "<None>"

\* the datetime at instant t with the given tzinfo
datetime(t, tzinfo) == [t |-> t, tzinfo |-> tzinfo]

\* a str whose text spells a Decimal (kind "decimal", value the Decimal), an
\* ISO 8601 datetime (kind "iso", value the datetime) or neither ("other")
text(kind, value) == [json |-> "string", text |-> kind, value |-> value]

\* a JSON number
number(value) == [json |-> "number", value |-> value]

\* a str that is neither a number nor a date
OTHER_TEXT == [json |-> "string", text |-> "other"]

\* str(d) of a Decimal d
str_Decimal(d) == text("decimal", d)

\* datetime.isoformat()
isoformat(d) == text("iso", d)

\* datetime.fromisoformat(s) of a str s
fromisoformat(s) ==
    IF s.text = "iso" THEN Return(s.value)
    ELSE Raise("ValueError", <<"Invalid isoformat string">>)

EventKey_post_init_tz_unchecked(self) ==
    Return(self)

\* EventKey.__post_init__; a value without a tzinfo attribute is no datetime
EventKey_post_init(self) ==
    IF "tzinfo" \notin DOMAIN self.expiry
    THEN Raise("AttributeError", <<"tzinfo">>)
    ELSE IF self.expiry.tzinfo = tz_None
    THEN Raise("ValueError", <<ERR_MISSING_TZ>>)
    ELSE Return(self)

Quote_post_init_range_unchecked(self) ==
    IF "tzinfo" \notin DOMAIN self.ts
    THEN Raise("AttributeError", <<"tzinfo">>)
    ELSE IF self.ts.tzinfo = tz_None
    THEN Raise("ValueError", <<ERR_MISSING_TZ>>)
    ELSE Return(self)

\* Quote.__post_init__: the price range first, then the timestamp
Quote_post_init(self) ==
    IF ~(0 <= self.price /\ self.price <= ONE)
    THEN Raise("ValueError", <<ERR_PRICE_RANGE, self.price>>)
    ELSE IF "tzinfo" \notin DOMAIN self.ts
    THEN Raise("AttributeError", <<"tzinfo">>)
    ELSE IF self.ts.tzinfo = tz_None
    THEN Raise("ValueError", <<ERR_MISSING_TZ>>)
    ELSE Return(self)

MarketSnapshot_post_init_yes_only(self) ==
    IF self.best_yes.side # "YES"
    THEN Raise("ValueError", <<ERR_WRONG_SIDE_YES, self.best_yes.side>>)
    ELSE Return(self)

\* MarketSnapshot.__post_init__
MarketSnapshot_post_init(self) ==
    IF self.best_yes.side # "YES"
    THEN Raise("ValueError", <<ERR_WRONG_SIDE_YES, self.best_yes.side>>)
    ELSE IF self.best_no.side # "NO"
    THEN Raise("ValueError", <<ERR_WRONG_SIDE_NO, self.best_no.side>>)
    ELSE Return(self)

\* asdict and DecimalJSONEncoder on the fields of one entity: a Decimal (the
\* price) becomes its str, a datetime (expiry, ts) its ISO text
encode_fields(d) ==
    [k \in DOMAIN d |->
        IF k = "price" THEN str_Decimal(d[k])
        ELSE IF k \in {"expiry", "ts"} THEN isoformat(d[k])
        ELSE d[k]]

\* to_json(obj); the JSON document is the tree that json.loads gives back
to_json(obj) ==
    IF "key" \in DOMAIN obj
    THEN [key |-> encode_fields(obj.key),
          best_yes |-> encode_fields(obj.best_yes),
          best_no |-> encode_fields(obj.best_no)]
    ELSE encode_fields(obj)

\* _object_hook raises: Decimal(v) of a str that is no number raises
\* decimal.InvalidOperation, which the except clause does not catch
object_hook_raises(d) ==
    /\ "price" \in DOMAIN d
    /\ d.price.json = "string"
    /\ d.price.text # "decimal"

\* _object_hook on a dict of leaves: "price" strings become Decimals, "expiry"
\* and "ts" strings in ISO format become datetimes, everything else stays
object_hook(d) ==
    [k \in DOMAIN d |->
        IF k = "price"
        THEN IF d[k].json = "number" \/ d[k].text = "decimal"
             THEN d[k].value ELSE d[k]
        ELSE IF k \in {"expiry", "ts"}
        THEN IF d[k].json = "string" /\ d[k].text = "iso"
             THEN d[k].value ELSE d[k]
        ELSE d[k]]

\* Quote(**data)
Quote_from_dict(data) ==
    Quote_post_init(Quote(data.side, data.price, data.size, data.ts))

\* EventKey(**data)
EventKey_from_dict(data) ==
    EventKey_post_init(EventKey(data.exchange, data.symbol, data.question,
                                data.expiry, data.strike, data.settlement))

\* from_json(json_str, cls)
from_json(json_str, cls) ==
    IF cls = "MarketSnapshot"
    THEN IF \E k \in {"key", "best_yes", "best_no"} : object_hook_raises(json_str[k])
         THEN Raise("InvalidOperation", <<>>)
         ELSE LET event_key == EventKey_from_dict(object_hook(json_str.key))
                  best_yes == Quote_from_dict(object_hook(json_str.best_yes))
                  best_no == Quote_from_dict(object_hook(json_str.best_no))
              IN  IF event_key.kind = "raise" THEN event_key
                  ELSE IF best_yes.kind = "raise" THEN best_yes
                  ELSE IF best_no.kind = "raise" THEN best_no
                  ELSE MarketSnapshot_post_init(
                           MarketSnapshot(event_key.value, best_yes.value, best_no.value))
    ELSE IF object_hook_raises(json_str)
    THEN Raise("InvalidOperation", <<>>)
    ELSE IF cls = "Quote" THEN Quote_from_dict(object_hook(json_str))
    ELSE EventKey_from_dict(object_hook(json_str))

----------------------------------------------------------------------------
(* Normalizers: normalizer.py *)

\* float(x)
float(x) == <<"float", x>>

\* datetime.now(UTC) when the clock reads now
utc_now(now) == datetime(now, "UTC")

cents_to_price_unscaled(v) == v

\* Decimal(str(v)) / Decimal("100") of a venue price v in cents or ticks
cents_to_price(v) == v \div 100

\* _kalshi_adapter(raw), the clock reading now
kalshi_adapter(raw, now) ==
    IF "event" \notin DOMAIN raw THEN Raise("KeyError", <<"event">>)
    ELSE IF "market" \notin DOMAIN raw THEN Raise("KeyError", <<"market">>)
    ELSE
    LET event_data == raw.event
        market_data == raw.market
    IN
    IF "close_time" \notin DOMAIN event_data THEN Raise("KeyError", <<"close_time">>)
    ELSE
    LET expiry == fromisoformat(event_data.close_time) IN
    IF expiry.kind = "raise" THEN expiry
    ELSE IF "ticker" \notin DOMAIN market_data THEN Raise("KeyError", <<"ticker">>)
    ELSE IF "title" \notin DOMAIN market_data THEN Raise("KeyError", <<"title">>)
    ELSE
    LET key == EventKey_post_init(
                   EventKey(s_Kalshi, market_data.ticker, market_data.title,
                            expiry.value, None, "boolean"))
    IN
    IF key.kind = "raise" THEN key
    ELSE
    LET yes_bids == dict_get(market_data, "yes_bids", <<>>)
        yes_price == IF yes_bids # <<>> THEN cents_to_price(yes_bids[1].price) ELSE 0
        yes_size == IF yes_bids # <<>> THEN yes_bids[1].size ELSE 0
        no_bids == dict_get(market_data, "no_bids", <<>>)
        no_price == IF no_bids # <<>> THEN cents_to_price(no_bids[1].price) ELSE 0
        no_size == IF no_bids # <<>> THEN no_bids[1].size ELSE 0
        timestamp_str == dict_get(raw, "timestamp", isoformat(utc_now(now)))
        timestamp == fromisoformat(timestamp_str)
    IN
    IF timestamp.kind = "raise" THEN timestamp
    ELSE
    LET best_yes == Quote_post_init(Quote("YES", yes_price, yes_size, timestamp.value))
        best_no == Quote_post_init(Quote("NO", no_price, no_size, timestamp.value))
    IN
    IF best_yes.kind = "raise" THEN best_yes
    ELSE IF best_no.kind = "raise" THEN best_no
    ELSE MarketSnapshot_post_init(MarketSnapshot(key.value, best_yes.value, best_no.value))

\* _nadex_adapter(raw), the clock reading now
nadex_adapter(raw, now) ==
    IF "contract" \notin DOMAIN raw THEN Raise("KeyError", <<"contract">>)
    ELSE
    LET market_data == raw.contract IN
    IF "expiry" \notin DOMAIN market_data THEN Raise("KeyError", <<"expiry">>)
    ELSE
    LET expiry == fromisoformat(market_data.expiry) IN
    IF expiry.kind = "raise" THEN expiry
    ELSE IF "id" \notin DOMAIN market_data THEN Raise("KeyError", <<"id">>)
    ELSE IF "name" \notin DOMAIN market_data THEN Raise("KeyError", <<"name">>)
    ELSE
    LET strike == IF dict_get(market_data, "strike", 0) # 0
                  THEN float(dict_get(market_data, "strike", 0)) ELSE None
        key == EventKey_post_init(
                   EventKey(s_Nadex, market_data.id, market_data.name,
                            expiry.value, strike, "boolean"))
    IN
    IF key.kind = "raise" THEN key
    ELSE IF "yes_price" \notin DOMAIN market_data THEN Raise("KeyError", <<"yes_price">>)
    ELSE IF "no_price" \notin DOMAIN market_data THEN Raise("KeyError", <<"no_price">>)
    ELSE
    LET yes_price == cents_to_price(market_data.yes_price)
        no_price == cents_to_price(market_data.no_price)
        yes_size == dict_get(market_data, "yes_volume", 1)
        no_size == dict_get(market_data, "no_volume", 1)
        updated_at == dict_get(market_data, "updated_at", isoformat(utc_now(now)))
        timestamp == fromisoformat(updated_at)
    IN
    IF timestamp.kind = "raise" THEN timestamp
    ELSE
    LET best_yes == Quote_post_init(Quote("YES", yes_price, yes_size, timestamp.value))
        best_no == Quote_post_init(Quote("NO", no_price, no_size, timestamp.value))
    IN
    IF best_yes.kind = "raise" THEN best_yes
    ELSE IF best_no.kind = "raise" THEN best_no
    ELSE MarketSnapshot_post_init(MarketSnapshot(key.value, best_yes.value, best_no.value))

\* _predictit_adapter(raw), the clock reading now
predictit_adapter(raw, now) ==
    IF "market" \notin DOMAIN raw THEN Raise("KeyError", <<"market">>)
    ELSE
    LET market_data == raw.market IN
    IF "contracts" \notin DOMAIN market_data THEN Raise("KeyError", <<"contracts">>)
    ELSE IF market_data.contracts = <<>> THEN Raise("IndexError", <<"list index out of range">>)
    ELSE
    LET contract == market_data.contracts[1] IN
    IF "dateCloses" \notin DOMAIN market_data /\ "dateEnd" \notin DOMAIN market_data
    THEN Raise("TypeError", <<"fromisoformat: argument must be str">>)
    ELSE
    LET expiry_str == IF "dateCloses" \in DOMAIN market_data
                      THEN market_data.dateCloses ELSE market_data.dateEnd
        expiry == fromisoformat(expiry_str)
    IN
    IF expiry.kind = "raise" THEN expiry
    ELSE IF "id" \notin DOMAIN market_data THEN Raise("KeyError", <<"id">>)
    ELSE IF "id" \notin DOMAIN contract THEN Raise("KeyError", <<"id">>)
    ELSE IF "name" \notin DOMAIN contract THEN Raise("KeyError", <<"name">>)
    ELSE
    LET key == EventKey_post_init(
                   EventKey(s_PredictIt,
                            str_int(market_data.id) \o <<".">> \o str_int(contract.id),
                            contract.name, expiry.value, None, "boolean"))
    IN
    IF key.kind = "raise" THEN key
    ELSE IF "bestBuyYesCost" \notin DOMAIN contract THEN Raise("KeyError", <<"bestBuyYesCost">>)
    ELSE IF "bestBuyNoCost" \notin DOMAIN contract THEN Raise("KeyError", <<"bestBuyNoCost">>)
    ELSE
    LET yes_price == contract.bestBuyYesCost
        no_price == contract.bestBuyNoCost
        yes_size == dict_get(contract, "bestBuyYesShares", 1)
        no_size == dict_get(contract, "bestBuyNoShares", 1)
        timestamp ==
            IF "lastTradePrice" \in DOMAIN contract /\ "lastTradeTime" \in DOMAIN contract
            THEN fromisoformat(contract.lastTradeTime)
            ELSE Return(utc_now(now))
    IN
    IF timestamp.kind = "raise" THEN timestamp
    ELSE
    LET best_yes == Quote_post_init(Quote("YES", yes_price, yes_size, timestamp.value))
        best_no == Quote_post_init(Quote("NO", no_price, no_size, timestamp.value))
    IN
    IF best_yes.kind = "raise" THEN best_yes
    ELSE IF best_no.kind = "raise" THEN best_no
    ELSE MarketSnapshot_post_init(MarketSnapshot(key.value, best_yes.value, best_no.value))

\* _ADAPTERS: the adapter registered under each venue name
ADAPTERS ==
    (s_Kalshi :> "_kalshi_adapter") @@ (s_Nadex :> "_nadex_adapter") @@
    (s_PredictIt :> "_predictit_adapter")

\* adapter(raw)
adapter_call(adapter, raw, now) ==
    CASE adapter = "_kalshi_adapter" -> kalshi_adapter(raw, now)
      [] adapter = "_nadex_adapter" -> nadex_adapter(raw, now)
      [] adapter = "_predictit_adapter" -> predictit_adapter(raw, now)

to_snapshot_any_case(raw, source, now) ==
    LET names == {n \in DOMAIN ADAPTERS : lower(n) = lower(source)} IN
    IF names = {}
    THEN Raise("ValueError", <<"Unsupported source", source>>)
    ELSE adapter_call(ADAPTERS[CHOOSE n \in names : TRUE], raw, now)

\* to_snapshot(raw, source), the clock reading now
to_snapshot(raw, source, now) ==
    IF source \notin DOMAIN ADAPTERS
    THEN Raise("ValueError", <<"Unsupported source", source>>)
    ELSE adapter_call(ADAPTERS[source], raw, now)

----------------------------------------------------------------------------
(* Canonical schema and normalizers: the inputs and the calls *)

MaxClock == 2

\* the readings of the clock; the datetimes of the payloads are at instant 0
Clock == 1 .. MaxClock

AWARE == datetime(0, "UTC")
NAIVE == datetime(0, tz_None)

Datetimes == {AWARE, datetime(0, "+05:00"), NAIVE}

Sides == {"YES", "NO"}

\* prices below 0, at 0, inside, at 1 and above 1
QuotePrices == {-10 * Cent, -1, 0, 45 * Cent, ONE, ONE + 1, 120 * Cent}

VALID_KEY == EventKey(s_Kalshi, s_TEST_Kalshi, <<>>, AWARE, None, "boolean")

\* the quotes that construction accepts
ValidQuotes ==
    { Quote(side, price, 100, AWARE) : side \in Sides, price \in {0, 45 * Cent, ONE} }

\* the dict with at most the key k, its value drawn from S
opt(k, S) == {EMPTY_DICT} \cup { (k :> v) : v \in S }

\* JSON documents of a Quote: what to_json writes for any field values, and
\* documents edited by hand
JsonPrices ==
    { str_Decimal(p) : p \in QuotePrices } \cup
    { number(45 * Cent), number(120 * Cent), OTHER_TEXT }

JsonTimes == { isoformat(d) : d \in Datetimes } \cup { OTHER_TEXT, number(0) }

QuoteDocs ==
    { [side |-> side, price |-> price, size |-> 100, ts |-> ts] :
        side \in Sides, price \in JsonPrices, ts \in JsonTimes }

SnapshotQuoteDocs ==
    { [side |-> side, price |-> price, size |-> 100, ts |-> ts] :
        side \in Sides,
        price \in {str_Decimal(45 * Cent), str_Decimal(120 * Cent), OTHER_TEXT},
        ts \in {isoformat(AWARE), isoformat(NAIVE)} }

KeyDocs ==
    { [exchange |-> s_Kalshi, symbol |-> s_TEST_Kalshi, question |-> <<>>,
       expiry |-> expiry, strike |-> None, settlement |-> "boolean"] :
        expiry \in {isoformat(AWARE), isoformat(NAIVE), OTHER_TEXT} }

SnapshotDocs ==
    { [key |-> key, best_yes |-> best_yes, best_no |-> best_no] :
        key \in KeyDocs, best_yes \in SnapshotQuoteDocs, best_no \in SnapshotQuoteDocs }

\* venue payloads: every optional field present or absent, times aware,
\* naive or unparsable, prices inside and outside the venue's range
IsoTexts == {isoformat(AWARE), isoformat(NAIVE), OTHER_TEXT}

TimestampTexts == {isoformat(AWARE), isoformat(NAIVE)}

\* prices in cents or ticks
NativeCents == {-1 * ONE, 45 * ONE, 100 * ONE, 101 * ONE}

\* prices in probability units
NativeUnits == {-1 * Cent, 45 * Cent, ONE, 101 * Cent}

KalshiBids(k) ==
    opt(k, {<<>>} \cup { <<[price |-> p, size |-> 10]>> : p \in NativeCents })

KalshiPayloads ==
    { ("event" :> event) @@
      ("market" :> ([ticker |-> s_BTC_70K_31MAY25, title |-> <<>>] @@ yes_bids @@ no_bids)) @@
      timestamp :
        event \in opt("close_time", IsoTexts),
        yes_bids \in KalshiBids("yes_bids"), no_bids \in KalshiBids("no_bids"),
        timestamp \in opt("timestamp", TimestampTexts) }

NadexPayloads ==
    { ("contract" :>
        ([id |-> s_BTC_70000_31MAY25, name |-> <<>>] @@ expiry @@ strike @@
         yes_price @@ no_price @@ yes_volume @@ no_volume @@ updated_at)) :
        expiry \in opt("expiry", IsoTexts), strike \in opt("strike", {5500}),
        yes_price \in opt("yes_price", NativeCents),
        no_price \in opt("no_price", NativeCents),
        yes_volume \in opt("yes_volume", {7}), no_volume \in opt("no_volume", {7}),
        updated_at \in opt("updated_at", TimestampTexts) }

PredictItContracts ==
    { [id |-> 1, name |-> <<>>] @@ yes_cost @@ no_cost @@ yes_shares @@ no_shares @@
      last_price @@ last_time :
        yes_cost \in opt("bestBuyYesCost", NativeUnits),
        no_cost \in opt("bestBuyNoCost", NativeUnits),
        yes_shares \in opt("bestBuyYesShares", {7}),
        no_shares \in opt("bestBuyNoShares", {7}),
        last_price \in opt("lastTradePrice", {45 * Cent}),
        last_time \in opt("lastTradeTime", TimestampTexts) }

PredictItPayloads ==
    { ("market" :> ([id |-> 8973, contracts |-> contracts] @@ date_closes @@ date_end)) :
        contracts \in {<<>>} \cup { <<c>> : c \in PredictItContracts },
        date_closes \in opt("dateCloses", TimestampTexts),
        date_end \in opt("dateEnd", {isoformat(AWARE)}) }

Payloads ==
    {EMPTY_DICT} \cup KalshiPayloads \cup NadexPayloads \cup PredictItPayloads

SourceNames == {s_Kalshi, s_Nadex, s_PredictIt, s_kalshi, s_PREDICTIT, s_Polymarket}

Call_EventKey ==
    /\ pc = "idle"
    /\ \E expiry \in Datetimes :
        /\ call' = [fn |-> "EventKey", expiry |-> expiry]
        /\ ret' = EventKey_post_init(
                      EventKey(s_Kalshi, s_TEST_Kalshi, <<>>, expiry, None, "boolean"))
    /\ pc' = "returned"
    /\ UNCHANGED <<FEE_DATA, REGISTRY, context, effects>>

Call_Quote ==
    /\ pc = "idle"
    /\ \E side \in Sides, price \in QuotePrices, size \in {0, 100}, ts \in Datetimes :
        /\ call' = [fn |-> "Quote", side |-> side, price |-> price,
                    size |-> size, ts |-> ts]
        /\ ret' = Quote_post_init(Quote(side, price, size, ts))
    /\ pc' = "returned"
    /\ UNCHANGED <<FEE_DATA, REGISTRY, context, effects>>

Call_MarketSnapshot ==
    /\ pc = "idle"
    /\ \E best_yes \in ValidQuotes, best_no \in ValidQuotes :
        /\ call' = [fn |-> "MarketSnapshot", key |-> VALID_KEY,
                    best_yes |-> best_yes, best_no |-> best_no]
        /\ ret' = MarketSnapshot_post_init(MarketSnapshot(VALID_KEY, best_yes, best_no))
    /\ pc' = "returned"
    /\ UNCHANGED <<FEE_DATA, REGISTRY, context, effects>>

Call_from_json ==
    /\ pc = "idle"
    /\ \E cls \in {"Quote", "EventKey", "MarketSnapshot"} :
        \E json_str \in (CASE cls = "Quote" -> QuoteDocs
                           [] cls = "EventKey" -> KeyDocs
                           [] cls = "MarketSnapshot" -> SnapshotDocs) :
            /\ call' = [fn |-> "from_json", json_str |-> json_str, cls |-> cls]
            /\ ret' = from_json(json_str, cls)
    /\ pc' = "returned"
    /\ UNCHANGED <<FEE_DATA, REGISTRY, context, effects>>

Call_to_snapshot ==
    /\ pc = "idle"
    /\ \E raw \in Payloads, source \in SourceNames, now \in Clock :
        /\ call' = [fn |-> "to_snapshot", raw |-> raw, source |-> source, now |-> now]
        /\ ret' = to_snapshot(raw, source, now)
    /\ pc' = "returned"
    /\ UNCHANGED <<FEE_DATA, REGISTRY, context, effects>>

InitSchema ==
    /\ FEE_DATA = NO_FEES
    /\ REGISTRY = <<>>
    /\ pc = "idle"
    /\ call = NoCall
    /\ ret = NoRet
    /\ context = MAIN_CONTEXT
    /\ effects = <<>>

NextSchema ==
    \/ Call_EventKey
    \/ Call_Quote
    \/ Call_MarketSnapshot
    \/ Call_from_json
    \/ Call_to_snapshot
    \/ Done

SpecSchema == InitSchema /\ [][NextSchema]_vars

----------------------------------------------------------------------------
(* Canonical schema and normalizers: properties *)

AfterCall(fn) == pc = "returned" /\ call.fn = fn

\* the call returned an object of the class cls
Returned(cls) ==
    /\ pc = "returned"
    /\ ret.kind = "return"
    /\ \/ call.fn = cls
       \/ call.fn = "from_json" /\ call.cls = cls
       \/ call.fn = "to_snapshot" /\ cls = "MarketSnapshot"

\* every Quote that the last call brought into existence
ReturnedQuotes ==
    IF Returned("Quote") THEN {ret.value}
    ELSE IF Returned("MarketSnapshot") THEN {ret.value.best_yes, ret.value.best_no}
    ELSE {}

\* d is a datetime with a tzinfo
Aware(d) == "tzinfo" \in DOMAIN d /\ d.tzinfo # tz_None

PriceRangeError ==
    /\ ret.kind = "raise"
    /\ ret.exc = "ValueError"
    /\ ret.msg[1] = ERR_PRICE_RANGE

\* C13: every Quote that exists, built directly, by a normalizer or by
\* from_json, has 0 <= price <= 1; Quote(...) with a price below 0 or above 1
\* raises the range error; the prices 0 and 1 are accepted.
C13_QuotePriceInUnitInterval ==
    /\ \A q \in ReturnedQuotes : 0 <= q.price /\ q.price <= ONE
    /\ AfterCall("Quote") =>
        /\ (call.price < 0 \/ call.price > ONE) => PriceRangeError
        /\ (call.price \in {0, ONE} /\ Aware(call.ts)) =>
            ret = Return(Quote(call.side, call.price, call.size, call.ts))
    /\ (AfterCall("from_json") /\ call.cls = "Quote"
        /\ call.json_str.price # OTHER_TEXT
        /\ (call.json_str.price.value < 0 \/ call.json_str.price.value > ONE)) =>
            PriceRangeError

C13_Witness ==
    /\ AfterCall("Quote")
    /\ call.price = ONE + 1
    /\ PriceRangeError

\* C14: every MarketSnapshot that any operation returns has a timezone-aware
\* key.expiry, best_yes.ts and best_no.ts; EventKey(...) with a naive expiry
\* and Quote(...) with a naive ts raise.
C14_TimestampsTimezoneAware ==
    /\ Returned("MarketSnapshot") =>
        /\ Aware(ret.value.key.expiry)
        /\ Aware(ret.value.best_yes.ts)
        /\ Aware(ret.value.best_no.ts)
    /\ Returned("EventKey") => Aware(ret.value.expiry)
    /\ Returned("Quote") => Aware(ret.value.ts)
    /\ (AfterCall("EventKey") /\ ~Aware(call.expiry)) =>
        ret = Raise("ValueError", <<ERR_MISSING_TZ>>)
    /\ (AfterCall("Quote") /\ ~Aware(call.ts)) =>
        ret.kind = "raise" /\ ret.exc = "ValueError"

C14_Witness ==
    /\ AfterCall("EventKey")
    /\ call.expiry = NAIVE
    /\ ret = Raise("ValueError", <<ERR_MISSING_TZ>>)

\* C15: every MarketSnapshot that exists has best_yes.side = YES and
\* best_no.side = NO; MarketSnapshot(...) with a NO quote as best_yes or a YES
\* quote as best_no raises.
C15_SnapshotSidesConsistent ==
    /\ Returned("MarketSnapshot") =>
        /\ ret.value.best_yes.side = "YES"
        /\ ret.value.best_no.side = "NO"
    /\ (AfterCall("MarketSnapshot")
        /\ (call.best_yes.side = "NO" \/ call.best_no.side = "YES")) =>
            ret.kind = "raise" /\ ret.exc = "ValueError"

C15_Witness ==
    /\ AfterCall("MarketSnapshot")
    /\ call.best_yes.side = "YES"
    /\ call.best_no.side = "YES"
    /\ ret.kind = "raise"

\* the payload has the shape of the venue's payloads
PayloadOf(source, raw) ==
    CASE source = s_Kalshi ->
            {"event", "market"} \subseteq DOMAIN raw /\ "ticker" \in DOMAIN raw.market
      [] source = s_Nadex -> "contract" \in DOMAIN raw
      [] source = s_PredictIt ->
            /\ "market" \in DOMAIN raw
            /\ "contracts" \in DOMAIN raw.market
            /\ raw.market.contracts # <<>>

\* s spells a timezone-aware datetime
AwareText(s) == s.text = "iso" /\ Aware(s.value)

\* the payload omits the expiry / close time
ExpiryOmitted(source, raw) ==
    CASE source = s_Kalshi -> "close_time" \notin DOMAIN raw.event
      [] source = s_Nadex -> "expiry" \notin DOMAIN raw.contract
      [] source = s_PredictIt ->
            "dateCloses" \notin DOMAIN raw.market /\ "dateEnd" \notin DOMAIN raw.market

\* the payload gives a timezone-aware expiry / close time
ExpiryWellFormed(source, raw) ==
    CASE source = s_Kalshi ->
            "close_time" \in DOMAIN raw.event /\ AwareText(raw.event.close_time)
      [] source = s_Nadex ->
            "expiry" \in DOMAIN raw.contract /\ AwareText(raw.contract.expiry)
      [] source = s_PredictIt ->
            IF "dateCloses" \in DOMAIN raw.market THEN AwareText(raw.market.dateCloses)
            ELSE "dateEnd" \in DOMAIN raw.market /\ AwareText(raw.market.dateEnd)

\* the payload gives no quote time or a timezone-aware one
TimestampWellFormed(source, raw) ==
    CASE source = s_Kalshi ->
            "timestamp" \in DOMAIN raw => AwareText(raw.timestamp)
      [] source = s_Nadex ->
            "updated_at" \in DOMAIN raw.contract => AwareText(raw.contract.updated_at)
      [] source = s_PredictIt ->
            LET contract == raw.market.contracts[1] IN
            ("lastTradePrice" \in DOMAIN contract /\ "lastTradeTime" \in DOMAIN contract)
                => AwareText(contract.lastTradeTime)

\* the payload quotes the side
SideQuoted(source, raw, side) ==
    CASE source = s_Kalshi ->
            LET k == IF side = "YES" THEN "yes_bids" ELSE "no_bids" IN
            k \in DOMAIN raw.market /\ raw.market[k] # <<>>
      [] source = s_Nadex ->
            (IF side = "YES" THEN "yes_price" ELSE "no_price") \in DOMAIN raw.contract
      [] source = s_PredictIt ->
            (IF side = "YES" THEN "bestBuyYesCost" ELSE "bestBuyNoCost")
                \in DOMAIN raw.market.contracts[1]

\* the venue-native price of a quoted side
NativePrice(source, raw, side) ==
    CASE source = s_Kalshi ->
            raw.market[IF side = "YES" THEN "yes_bids" ELSE "no_bids"][1].price
      [] source = s_Nadex ->
            raw.contract[IF side = "YES" THEN "yes_price" ELSE "no_price"]
      [] source = s_PredictIt ->
            raw.market.contracts[1][IF side = "YES" THEN "bestBuyYesCost" ELSE "bestBuyNoCost"]

\* p is the canonical price of the native price v: v / 100 for the venues
\* that quote in cents or ticks, v itself for PredictIt
IsCanonicalPrice(source, p, v) ==
    IF source = s_PredictIt THEN p = v ELSE p * 100 = v

\* the native price maps into [0, 1]
NativeInRange(source, v) ==
    IF source = s_PredictIt THEN 0 <= v /\ v <= ONE ELSE 0 <= v /\ v <= 100 * ONE

QuoteOf(snapshot, side) ==
    IF side = "YES" THEN snapshot.best_yes ELSE snapshot.best_no

\* to_snapshot was called for one of the three venues with a payload of that
\* venue
AfterVenueCall ==
    /\ AfterCall("to_snapshot")
    /\ call.source \in {s_Kalshi, s_Nadex, s_PredictIt}
    /\ PayloadOf(call.source, call.raw)

\* C16: to_snapshot raises the unsupported-source error, whatever the payload,
\* for every source other than exactly Kalshi, Nadex, PredictIt; for these it
\* gives what the venue's adapter gives, and a returned snapshot has
\* key.exchange = source.
C16_UnsupportedSourceFailsElseDispatch ==
    AfterCall("to_snapshot") =>
        IF call.source \notin {s_Kalshi, s_Nadex, s_PredictIt}
        THEN ret = Raise("ValueError", <<"Unsupported source", call.source>>)
        ELSE /\ ret.kind = "return" => ret.value.key.exchange = call.source
             /\ call.source = s_Kalshi => ret = kalshi_adapter(call.raw, call.now)
             /\ call.source = s_Nadex => ret = nadex_adapter(call.raw, call.now)
             /\ call.source = s_PredictIt => ret = predictit_adapter(call.raw, call.now)

C16_Witness ==
    /\ AfterCall("to_snapshot")
    /\ call.source = s_kalshi
    /\ kalshi_adapter(call.raw, call.now).kind = "return"
    /\ ret = Raise("ValueError", <<"Unsupported source", s_kalshi>>)

\* C17: for each of the three venues, when the payload has no quote for a
\* side (and is otherwise well formed), to_snapshot returns a snapshot whose
\* quote of that side has price 0 and size 0.
C17_MissingSideDefaultsToZero ==
    \A side \in Sides :
        (/\ AfterVenueCall
         /\ ExpiryWellFormed(call.source, call.raw)
         /\ TimestampWellFormed(call.source, call.raw)
         /\ ~SideQuoted(call.source, call.raw, side)
         /\ \A other \in Sides :
                SideQuoted(call.source, call.raw, other) =>
                    NativeInRange(call.source, NativePrice(call.source, call.raw, other)))
        => /\ ret.kind = "return"
           /\ QuoteOf(ret.value, side).price = 0
           /\ QuoteOf(ret.value, side).size = 0

\* C18: for a payload that quotes both sides, a returned snapshot has each
\* side's price equal to the native price / 100 (Kalshi, Nadex) or to the
\* native price (PredictIt); if a native price maps outside [0, 1],
\* to_snapshot raises; if both map inside and the payload's times are well
\* formed, it returns.
C18_PriceScaleConversion ==
    (/\ AfterVenueCall
     /\ \A side \in Sides : SideQuoted(call.source, call.raw, side))
    => /\ ret.kind = "return" =>
            \A side \in Sides :
                IsCanonicalPrice(call.source, QuoteOf(ret.value, side).price,
                                 NativePrice(call.source, call.raw, side))
       /\ (\E side \in Sides :
              ~NativeInRange(call.source, NativePrice(call.source, call.raw, side)))
            => ret.kind = "raise"
       /\ (/\ \A side \in Sides :
                NativeInRange(call.source, NativePrice(call.source, call.raw, side))
           /\ ExpiryWellFormed(call.source, call.raw)
           /\ TimestampWellFormed(call.source, call.raw))
            => ret.kind = "return"

C18_Witness ==
    /\ AfterVenueCall
    /\ call.source = s_Nadex
    /\ SideQuoted(s_Nadex, call.raw, "YES")
    /\ SideQuoted(s_Nadex, call.raw, "NO")
    /\ NativePrice(s_Nadex, call.raw, "YES") = 45 * ONE
    /\ NativePrice(s_Nadex, call.raw, "NO") = 100 * ONE
    /\ ret.kind = "return"
    /\ ret.value.best_yes.price = 45 * Cent
    /\ ret.value.best_no.price = ONE

\* C19: for each of the three venues, when the payload omits the expiry /
\* close time (and is otherwise well formed), to_snapshot returns a snapshot
\* whose key.expiry is the current UTC time.
C19_MissingExpiryFallsBackToNow ==
    (/\ AfterVenueCall
     /\ ExpiryOmitted(call.source, call.raw)
     /\ TimestampWellFormed(call.source, call.raw)
     /\ \A side \in Sides :
            /\ SideQuoted(call.source, call.raw, side)
            /\ NativeInRange(call.source, NativePrice(call.source, call.raw, side)))
    => /\ ret.kind = "return"
       /\ ret.value.key.expiry = utc_now(call.now)

----------------------------------------------------------------------------
(* Event tag matcher: the registries and the calls *)

s_unknown == <<"u","n","k","n","o","w","n">>
s_UNKNOWN_SYMBOL == <<"U","N","K","N","O","W","N","-","S","Y","M","B","O","L">>

\* a registry in which Nadex lists an event under a numeric identifier too
NUMERIC_ID_REGISTRY ==
    << registry_entry(s_FOMC_JUN25BP, s_FED_25BP_JUN25, s_8973, s_8973),
       registry_entry(s_BTC_31MAY70K, s_BTC_70K_31MAY25, s_BTC_70000_31MAY25, None) >>

\* a registry with a tag on two rows and a Kalshi symbol under two tags
DUPLICATE_REGISTRY ==
    << registry_entry(s_BTC_31MAY70K, s_BTC_70K_31MAY25, s_BTC_70000_31MAY25, None),
       registry_entry(s_BTC_31MAY70K, s_BTC_70K_31MAY25, None, s_8973),
       registry_entry(s_SPX_31MAY5500, s_BTC_70K_31MAY25, s_SPX_5500_31MAY25, None) >>

\* no registry file, the registry of the tests, numeric identifiers,
\* repeated tags and symbols
Registries == {<<>>, MOCK_REGISTRY, NUMERIC_ID_REGISTRY, DUPLICATE_REGISTRY}

MatcherTags == {s_BTC_31MAY70K, s_SPX_31MAY5500, s_FOMC_JUN25BP, s_OTHER_TAG}

MatcherExchanges ==
    {s_kalshi, s_nadex, s_predictit, s_KALSHI, s_NADEX, s_PREDICTIT, s_Kalshi, s_unknown}

MatcherSymbols ==
    {s_BTC_70K_31MAY25, s_BTC_70000_31MAY25, s_SPX_5500_31MAY25, s_FED_25BP_JUN25,
     s_8973, s_UNKNOWN_SYMBOL, py_int(8973), py_int(99999)}

Call_tag_from ==
    /\ pc = "idle"
    /\ \E exchange \in MatcherExchanges, symbol \in MatcherSymbols :
        /\ call' = [fn |-> "tag_from", exchange |-> exchange, symbol |-> symbol]
        /\ ret' = Return(tag_from(exchange, symbol))
    /\ pc' = "returned"
    /\ UNCHANGED <<FEE_DATA, REGISTRY, context, effects>>

Call_venues_for ==
    /\ pc = "idle"
    /\ \E tag \in MatcherTags :
        /\ call' = [fn |-> "venues_for", tag |-> tag]
        /\ ret' = Return(venues_for(tag))
    /\ pc' = "returned"
    /\ UNCHANGED <<FEE_DATA, REGISTRY, context, effects>>

InitMatcher ==
    /\ FEE_DATA = NO_FEES
    /\ REGISTRY \in Registries
    /\ pc = "idle"
    /\ call = NoCall
    /\ ret = NoRet
    /\ context = MAIN_CONTEXT
    /\ effects = <<>>

NextMatcher == Call_tag_from \/ Call_venues_for \/ Done

SpecMatcher == InitMatcher /\ [][NextMatcher]_vars

----------------------------------------------------------------------------
(* Event tag matcher: properties *)

\* the canonical string form of a symbol: an int as its decimal string
CanonicalSymbol(symbol) ==
    IF isinstance_int(symbol) THEN str_int(symbol[2]) ELSE symbol

\* the rows that list the symbol, in canonical form, under the venue key
RowsListing(exchange, symbol) ==
    { i \in DOMAIN REGISTRY :
        /\ exchange \in {s_kalshi, s_nadex, s_predictit}
        /\ REGISTRY[i][exchange] # None
        /\ CanonicalSymbol(REGISTRY[i][exchange]) = CanonicalSymbol(symbol) }

\* C20: tag_from(exchange, symbol) returns the tag of the registry row that
\* lists the symbol, an int taken as its decimal string, under exactly that
\* venue key, and None when no row does (unknown or differently-cased
\* exchange, unknown symbol); it never raises.
C20_TagFromExactMatchOnCanonicalStrings ==
    AfterCall("tag_from") =>
        /\ ret.kind = "return"
        /\ IF RowsListing(call.exchange, call.symbol) = {}
           THEN ret.value = None
           ELSE \E i \in RowsListing(call.exchange, call.symbol) :
                    ret.value = REGISTRY[i][s_tag]

\* the rows that carry the tag
RowsTagged(tag) == {i \in DOMAIN REGISTRY : REGISTRY[i][s_tag] = tag}

VenueKeys == {s_kalshi, s_nadex, s_predictit}

\* C21: venues_for(tag) returns exactly the venues whose symbol in the row of
\* that tag is not None, each mapped to that symbol, and the empty mapping
\* when no row carries the tag; it never raises.
C21_VenuesForNonNullVenuesOfTag ==
    AfterCall("venues_for") =>
        /\ ret.kind = "return"
        /\ IF RowsTagged(call.tag) = {}
           THEN DOMAIN ret.value = {}
           ELSE \E i \in RowsTagged(call.tag) :
                    /\ DOMAIN ret.value = {v \in VenueKeys : REGISTRY[i][v] # None}
                    /\ \A v \in DOMAIN ret.value : ret.value[v] = REGISTRY[i][v]

C21_Witness ==
    /\ AfterCall("venues_for")
    /\ REGISTRY = MOCK_REGISTRY
    /\ call.tag = s_FOMC_JUN25BP
    /\ DOMAIN ret.value = {s_kalshi, s_predictit}
    /\ ret.value[s_predictit] = s_8973

\* each tag is on one row and no symbol is twice under one venue
RegistryUnambiguous ==
    \A i, j \in DOMAIN REGISTRY :
        i # j =>
            /\ REGISTRY[i][s_tag] # REGISTRY[j][s_tag]
            /\ \A v \in VenueKeys :
                    REGISTRY[i][v] # None => REGISTRY[i][v] # REGISTRY[j][v]

----------------------------------------------------------------------------
(* The core called from parallel workers *)

\* In SpecWorkers pc, call and ret are functions of the thread: each thread is
\* idle, inside a call of the core, or holding the value the call returned.

NumWorkers == 2

\* threading names its threads Thread-1, Thread-2, ... in order of creation
THREAD_NAMES == <<"Thread-1", "Thread-2", "Thread-3", "Thread-4">>

Workers == {THREAD_NAMES[i] : i \in 1..NumWorkers}

Threads == {MainThread} \cup Workers

\* getcontext() is thread-local: the thread that imports sizing has set its
\* own precision, every other thread starts from decimal.DefaultContext
THREAD_CONTEXTS ==
    [t \in Threads |-> IF t = MainThread THEN PRECISION ELSE DEFAULT_PREC]

\* the calls the workers make; the kelly calls have quotients that end
\* within nine digits (0.14, 0.1246875 and the clamped 1.2, 1.06875)
WorkerCalls ==
    {[fn |-> "adjusted_price", exchange |-> exchange, side |-> side, price |-> 50 * Cent] :
        exchange \in {s_kalshi}, side \in {"YES", "NO"}}
    \cup {[fn |-> "calc_edge",
           snapshot_a |-> create_snapshot(s_Kalshi, s_TEST_Kalshi, 40 * Cent, 60 * Cent),
           snapshot_b |-> create_snapshot(s_PredictIt, s_TEST_PredictIt, 70 * Cent, 30 * Cent),
           tag_map |-> tag_map] : tag_map \in {None_dict, MOCK_TAG_MAP}}
    \cup {[fn |-> "kelly", edge |-> edge, odds |-> odds] :
            edge \in {7 * Cent, 60 * Cent}, odds \in {200 * Cent, 228 * Cent}}
    \cup {[fn |-> "tag_from", exchange |-> s_kalshi, symbol |-> symbol] :
            symbol \in {s_BTC_70K_31MAY25, s_UNKNOWN_SYMBOL}}
    \cup {[fn |-> "venues_for", tag |-> tag] : tag \in {s_BTC_31MAY70K, s_OTHER_TAG}}

\* the outcome of the call c made by a thread whose decimal context has
\* precision prec, on the tables as they are
core_call(c, prec) ==
    CASE c.fn = "adjusted_price" -> Return(adjusted_price(c.exchange, c.side, c.price))
      [] c.fn = "calc_edge" -> calc_edge(c.snapshot_a, c.snapshot_b, c.tag_map)
      [] c.fn = "kelly" -> kelly_in_context(c.edge, c.odds, prec)
      [] c.fn = "tag_from" -> Return(tag_from(c.exchange, c.symbol))
      [] c.fn = "venues_for" -> Return(venues_for(c.tag))

\* thread t enters a function of the core
Worker_call(t) ==
    /\ pc[t] = "idle"
    /\ \E c \in WorkerCalls : call' = [call EXCEPT ![t] = c]
    /\ pc' = [pc EXCEPT ![t] = "running"]
    /\ UNCHANGED <<FEE_DATA, REGISTRY, ret, context, effects>>

\* the function returns to thread t: it has read the tables and the decimal
\* context of t and has written nothing
Worker_return(t) ==
    /\ pc[t] = "running"
    /\ ret' = [ret EXCEPT ![t] = core_call(call[t], context[t])]
    /\ pc' = [pc EXCEPT ![t] = "returned"]
    /\ UNCHANGED <<FEE_DATA, REGISTRY, call, context, effects>>

\* thread t drops the result
Worker_done(t) ==
    /\ pc[t] = "returned"
    /\ pc' = [pc EXCEPT ![t] = "idle"]
    /\ call' = [call EXCEPT ![t] = NoCall]
    /\ ret' = [ret EXCEPT ![t] = NoRet]
    /\ UNCHANGED <<FEE_DATA, REGISTRY, context, effects>>

InitWorkers ==
    /\ FEE_DATA = FIXTURE_FEES
    /\ REGISTRY = MOCK_REGISTRY
    /\ pc = [t \in Threads |-> "idle"]
    /\ call = [t \in Threads |-> NoCall]
    /\ ret = [t \in Threads |-> NoRet]
    /\ context = THREAD_CONTEXTS
    /\ effects = <<>>

NextWorkers ==
    \E t \in Threads : Worker_call(t) \/ Worker_return(t) \/ Worker_done(t)

SpecWorkers == InitWorkers /\ [][NextWorkers]_vars

\* the same call run alone: made by the importing thread with no other
\* thread in the core
RunAlone(c) == core_call(c, MAIN_CONTEXT[MainThread])

\* C22: under any interleaving of calls by parallel workers, every call of
\* adjusted_price, calc_edge, kelly, tag_from and venues_for returns what the
\* same call returns when run alone, and the fee table and the registry stay
\* as they were loaded.
C22_WorkersGetResultOfCallAlone ==
    /\ FEE_DATA = FIXTURE_FEES
    /\ REGISTRY = MOCK_REGISTRY
    /\ \A t \in Threads : pc[t] = "returned" => ret[t] = RunAlone(call[t])

\* what does hold: calls made by one thread agree whatever the others do
C22_CallsOfMainThreadUnaffected ==
    pc[MainThread] = "returned" => ret[MainThread] = RunAlone(call[MainThread])


----------------------------------------------------------------------------
(* Venue clients: _make_request of kalshi_client.py, nadex_client.py and
   predictit_client.py *)

\* int(v) of a str or an int: an optional sign followed by decimal digits
is_digits(s) ==
    s # <<>> /\ \A i \in DOMAIN s : \E d \in DOMAIN digits : digits[d] = s[i]

RECURSIVE digits_value(_)
digits_value(s) ==
    IF s = <<>> THEN 0
    ELSE 10 * digits_value(SubSeq(s, 1, Len(s) - 1))
         + ((CHOOSE d \in DOMAIN digits : digits[d] = s[Len(s)]) - 1)

int(v) ==
    IF isinstance_int(v) THEN Return(v[2])
    ELSE LET signed == v # <<>> /\ v[1] \in {"-", "+"}
             magnitude == IF signed THEN Tail(v) ELSE v
         IN  IF ~is_digits(magnitude)
             THEN Raise("ValueError", <<"invalid literal for int() with base 10">>)
             ELSE IF signed /\ v[1] = "-"
             THEN Return(0 - digits_value(magnitude))
             ELSE Return(digits_value(magnitude))

min(a, b) == IF a <= b THEN a ELSE b

\* KalshiClient.MAX_RETRY_DELAY and KalshiClient.RATE_LIMIT_STATUS
KALSHI_MAX_RETRY_DELAY == 5
KALSHI_RATE_LIMIT_STATUS == 429

\* NadexClient.RETRY_DELAY and NadexClient.RETRY_STATUS_CODES
NADEX_RETRY_DELAY == 2
NADEX_RETRY_STATUS_CODES == {429, 503}

\* PredictItClient.MAX_RETRY_DELAY and PredictItClient.RETRY_STATUS_CODES
PREDICTIT_MAX_RETRY_DELAY == 3
PREDICTIT_RETRY_STATUS_CODES == {429}

s_Retry_After == <<"R","e","t","r","y","-","A","f","t","e","r">>

\* what session.get gives: a response, or a failure below HTTP
Response(status_code, headers) ==
    [kind |-> "response", status_code |-> status_code, headers |-> headers]

CONNECTION_FAILED == [kind |-> "failed"]

\* the effects of a request on the outside world, in order
GET == [op |-> "get"]
SLEEP(seconds) == [op |-> "sleep", seconds |-> seconds]

\* outcome and effects of a call
Outcome(r, e) == [ret |-> r, effects |-> e]

\* Response.raise_for_status() raises HTTPError
raises_for_status(response) ==
    response.status_code >= 400 /\ response.status_code < 600

HTTPError(response) == Raise("HTTPError", str_int(response.status_code))

\* one session.get and raise_for_status after the effects done so far
attempt(reply, done) ==
    IF reply.kind = "failed"
    THEN Outcome(Raise("ConnectionError", <<>>), Append(done, GET))
    ELSE IF raises_for_status(reply)
    THEN Outcome(HTTPError(reply), Append(done, GET))
    ELSE Outcome(Return(reply), Append(done, GET))

\* time.sleep(seconds) and the second attempt
sleep_then_retry(seconds, second, done) ==
    IF seconds < 0
    THEN Outcome(Raise("ValueError", <<"sleep length must be non-negative">>), done)
    ELSE attempt(second, Append(done, SLEEP(seconds)))

make_request_kalshi(first, second) ==
    LET once == attempt(first, <<>>)
    IN  IF once.ret.kind = "return" \/ once.ret.exc # "HTTPError"
        THEN once
        ELSE IF first.status_code = KALSHI_RATE_LIMIT_STATUS
        THEN LET header == int(dict_get(first.headers, s_Retry_After, <<"1">>))
             IN  IF header.kind = "raise"
                 THEN Outcome(header, once.effects)
                 ELSE sleep_then_retry(min(header.value, KALSHI_MAX_RETRY_DELAY),
                                       second, once.effects)
        ELSE once

make_request_nadex(first, second) ==
    LET once == attempt(first, <<>>)
    IN  IF once.ret.kind = "return" \/ once.ret.exc # "HTTPError"
        THEN once
        ELSE IF first.status_code \in NADEX_RETRY_STATUS_CODES
        THEN sleep_then_retry(NADEX_RETRY_DELAY, second, once.effects)
        ELSE once

make_request_predictit(first, second) ==
    LET once == attempt(first, <<>>)
    IN  IF once.ret.kind = "return" \/ once.ret.exc # "HTTPError"
        THEN once
        ELSE IF first.status_code \in PREDICTIT_RETRY_STATUS_CODES
        THEN LET retry_after == int(dict_get(first.headers, s_Retry_After,
                                             py_int(PREDICTIT_MAX_RETRY_DELAY)))
             IN  IF retry_after.kind = "raise"
                 THEN Outcome(retry_after, once.effects)
                 ELSE sleep_then_retry(min(retry_after.value, PREDICTIT_MAX_RETRY_DELAY),
                                       second, once.effects)
        ELSE once

make_request(client, first, second) ==
    CASE client = "KalshiClient" -> make_request_kalshi(first, second)
      [] client = "NadexClient" -> make_request_nadex(first, second)
      [] client = "PredictItClient" -> make_request_predictit(first, second)

----------------------------------------------------------------------------
(* Venue clients: replies of the venue and calls *)

ClientNames == {"KalshiClient", "NadexClient", "PredictItClient"}

StatusCodes == {200, 404, 429, 500, 503}

MaxRetryAfter == 7

s_HTTP_DATE ==
    <<"W","e","d",","," ","2","1"," ","O","c","t"," ","2","0","2","6"," ",
      "0","7",":","2","8",":","0","0"," ","G","M","T">>

\* Retry-After as the venue may send it: delay seconds, a negative number,
\* or an HTTP date
RetryAfterValues ==
    {str_int(k) : k \in 0..MaxRetryAfter} \cup {<<"-", "1">>, s_HTTP_DATE}

ReplyHeaders ==
    {EMPTY_DICT} \cup {(s_Retry_After :> v) : v \in RetryAfterValues}

FirstReplies ==
    {CONNECTION_FAILED}
    \cup {Response(status_code, headers) :
            status_code \in StatusCodes, headers \in ReplyHeaders}

SecondReplies ==
    {CONNECTION_FAILED}
    \cup {Response(status_code, EMPTY_DICT) : status_code \in StatusCodes}

\* a caller makes one request; the venue answers the first attempt with
\* first and a second attempt, if there is one, with second
Call_make_request ==
    /\ pc = "idle"
    /\ \E client \in ClientNames, first \in FirstReplies, second \in SecondReplies :
        LET outcome == make_request(client, first, second)
        IN  /\ call' = [fn |-> "_make_request", client |-> client,
                        first |-> first, second |-> second]
            /\ ret' = outcome.ret
            /\ effects' = outcome.effects
    /\ pc' = "returned"
    /\ UNCHANGED <<FEE_DATA, REGISTRY, context>>

InitClient ==
    /\ FEE_DATA = NO_FEES
    /\ REGISTRY = <<>>
    /\ pc = "idle"
    /\ call = NoCall
    /\ ret = NoRet
    /\ context = MAIN_CONTEXT
    /\ effects = <<>>

NextClient == Call_make_request \/ Done

SpecClient == InitClient /\ [][NextClient]_vars

----------------------------------------------------------------------------
(* Venue clients: properties *)

AfterRequest == pc = "returned" /\ call.fn = "_make_request"

Attempts == Cardinality({i \in DOMAIN effects : effects[i].op = "get"})

Sleeps == {i \in DOMAIN effects : effects[i].op = "sleep"}

RetryableStatuses(client) ==
    CASE client = "KalshiClient" -> {KALSHI_RATE_LIMIT_STATUS}
      [] client = "NadexClient" -> NADEX_RETRY_STATUS_CODES
      [] client = "PredictItClient" -> PREDICTIT_RETRY_STATUS_CODES

RetryCap(client) ==
    CASE client = "KalshiClient" -> KALSHI_MAX_RETRY_DELAY
      [] client = "NadexClient" -> NADEX_RETRY_DELAY
      [] client = "PredictItClient" -> PREDICTIT_MAX_RETRY_DELAY

FirstFailsRetryable ==
    /\ call.first.kind = "response"
    /\ call.first.status_code \in RetryableStatuses(call.client)

FirstFailsOtherwise ==
    /\ call.first.kind = "response"
    /\ raises_for_status(call.first)
    /\ call.first.status_code \notin RetryableStatuses(call.client)

SecondFails ==
    call.second.kind = "failed" \/ raises_for_status(call.second)

\* C26: a request makes at most two HTTP attempts; the second is made
\* exactly when the first fails with a retryable status of the client, after
\* exactly one sleep no longer than the cap of the client; any other HTTP
\* error is raised after a single attempt with no sleep, and a failure of
\* the second attempt is raised with no further attempt.
C26_AtMostOneRetryAfterCappedSleep ==
    AfterRequest =>
        /\ Attempts \in {1, 2}
        /\ (Attempts = 2) <=> FirstFailsRetryable
        /\ (Attempts = 2) =>
              /\ effects[1] = GET /\ effects[3] = GET
              /\ Sleeps = {2}
              /\ effects[2].seconds <= RetryCap(call.client)
        /\ FirstFailsOtherwise =>
              /\ ret.kind = "raise" /\ ret.exc = "HTTPError"
              /\ effects = <<GET>>
        /\ (Attempts = 2 /\ SecondFails) => ret.kind = "raise"


----------------------------------------------------------------------------
(* Orchestrator: main.py *)

MIN_VENUES_FOR_ARBITRAGE == 2

\* CLIENTS: the client class of each exchange
CLIENTS ==
    (s_kalshi :> "KalshiClient") @@ (s_nadex :> "NadexClient") @@
    (s_predictit :> "PredictItClient")

\* NORMALIZER_SOURCES: the normalizer source of each exchange
NORMALIZER_SOURCES ==
    (s_kalshi :> s_Kalshi) @@ (s_nadex :> s_Nadex) @@ (s_predictit :> s_PredictIt)

\* The world of one call: world.replies[exchange] is what the client of the
\* exchange returns or raises, world.now the reading of the clock,
\* world.db_fails_at the number of the save of a pair check that the database
\* refuses (0 for none), world.webhook whether a Slack webhook is configured
\* and world.slack_up whether posting to it succeeds.

\* fetch_market_data(exchange, symbol)
fetch_market_data(exchange, symbol, world) ==
    IF lower(exchange) \notin DOMAIN CLIENTS
    THEN Raise("ValueError", <<"Unsupported exchange">>)
    ELSE IF lower(exchange) = s_predictit /\ int(symbol).kind = "raise"
    THEN int(symbol)
    ELSE world.replies[lower(exchange)]

\* get_alert_sink()
get_alert_sink(world) == IF world.webhook THEN "SlackSink" ELSE "StdoutSink"

\* alert_sink.send(message)
send(alert_sink, message, world) ==
    IF alert_sink = "SlackSink" /\ ~world.slack_up
    THEN Raise("RequestException", <<>>)
    ELSE Return(None)

\* save_snapshot(...) and save_edge(...): the n-th save of a pair check
save(n, world) ==
    IF world.db_fails_at = n THEN Raise("OperationalError", <<>>) ELSE Return(None)

None_bankroll == <<"<None>">>

\* format_alert_message(...): the fields the message shows
format_alert_message(tag, edge, venue_a, venue_b, side_a, price_a, side_b, price_b, bankroll) ==
    [tag |-> tag, edge |-> edge, venue_a |-> venue_a, side_a |-> side_a,
     price_a |-> price_a, venue_b |-> venue_b, side_b |-> side_b,
     price_b |-> price_b,
     kelly |-> IF bankroll # None_bankroll THEN kelly(edge, 2 * ONE) ELSE NoRet]

\* the calls a pair check makes, in the order made; ok tells whether the
\* call returned
CHECK(venue_a, venue_b, tag) ==
    [op |-> "check_venue_pair", venue_a |-> venue_a, venue_b |-> venue_b, tag |-> tag]
FETCH(exchange, symbol, ok) ==
    [op |-> "fetch_market_data", exchange |-> exchange, symbol |-> symbol, ok |-> ok]
NORMALIZE(exchange, outcome) ==
    [op |-> "to_snapshot", exchange |-> exchange, outcome |-> outcome,
     ok |-> outcome.kind = "return"]
SAVE_SNAPSHOT(tag, exchange, yes_price, no_price, ok) ==
    [op |-> "save_snapshot", tag |-> tag, exchange |-> exchange,
     yes_price |-> yes_price, no_price |-> no_price, ok |-> ok]
CALC_EDGE(outcome) ==
    [op |-> "calc_edge", outcome |-> outcome, ok |-> outcome.kind = "return"]
SAVE_EDGE(tag, yes_exchange, no_exchange, edge, ok) ==
    [op |-> "save_edge", tag |-> tag, yes_exchange |-> yes_exchange,
     no_exchange |-> no_exchange, edge |-> edge, ok |-> ok]
SEND(message, ok) == [op |-> "send", message |-> message, ok |-> ok]
ECHO(message) == [op |-> "echo", message |-> message]

\* an except clause of check_venue_pair that takes back the saves made
except_clause_undoes_saves(done, error) ==
    Append(SelectSeq(done, LAMBDA step : step.op \notin {"save_snapshot", "save_edge"}),
           ECHO("Error checking"))

\* the except clauses of check_venue_pair: the error is echoed, nothing else
except_clause(done, error) ==
    Append(done,
           ECHO(CASE error.exc = "ValueError" -> "Value error checking"
                  [] error.exc = "KeyError" -> "Key error checking"
                  [] error.exc = "ConnectionError" -> "Connection error checking"
                  [] OTHER -> "Error checking"))

\* the two raw candidates check_venue_pair compares
yes_a_no_b(snapshot_a, snapshot_b) ==
    (ONE - snapshot_a.best_yes.price) - snapshot_b.best_no.price

yes_b_no_a(snapshot_a, snapshot_b) ==
    (ONE - snapshot_b.best_yes.price) - snapshot_a.best_no.price

\* (yes_exchange, no_exchange) of the edge record and of the alert
direction(venue_a, venue_b, snapshot_a, snapshot_b) ==
    IF yes_a_no_b(snapshot_a, snapshot_b) >= yes_b_no_a(snapshot_a, snapshot_b)
    THEN <<venue_a, venue_b>>
    ELSE <<venue_b, venue_a>>

\* an assignment: the right-hand side is evaluated once and the body runs
\* with the value bound to the name
assign(value, body(_)) == CHOOSE result \in {body(v) : v \in {value}} : TRUE

\* check_venue_pair(...): the calls it makes
check_venue_pair(venue_a, venue_b, symbols_a, symbols_b, tag, threshold_decimal, alert_sink, bankroll, world) ==
    assign(fetch_market_data(venue_a, symbols_a, world), LAMBDA data_a :
    LET s0 == <<CHECK(venue_a, venue_b, tag)>>
        s1 == Append(s0, FETCH(venue_a, symbols_a, data_a.kind = "return"))
    IN
    IF data_a.kind = "raise" THEN except_clause(s1, data_a)
    ELSE
    assign(fetch_market_data(venue_b, symbols_b, world), LAMBDA data_b :
    LET s2 == Append(s1, FETCH(venue_b, symbols_b, data_b.kind = "return"))
    IN
    IF data_b.kind = "raise" THEN except_clause(s2, data_b)
    ELSE
    assign(IF venue_a \in DOMAIN NORMALIZER_SOURCES
           THEN to_snapshot(data_a.value, NORMALIZER_SOURCES[venue_a], world.now)
           ELSE Raise("KeyError", venue_a), LAMBDA snapshot_a :
    LET s3 == Append(s2, NORMALIZE(venue_a, snapshot_a))
    IN
    IF snapshot_a.kind = "raise" THEN except_clause(s3, snapshot_a)
    ELSE
    assign(IF venue_b \in DOMAIN NORMALIZER_SOURCES
           THEN to_snapshot(data_b.value, NORMALIZER_SOURCES[venue_b], world.now)
           ELSE Raise("KeyError", venue_b), LAMBDA snapshot_b :
    LET s4 == Append(s3, NORMALIZE(venue_b, snapshot_b))
    IN
    IF snapshot_b.kind = "raise" THEN except_clause(s4, snapshot_b)
    ELSE
    LET a == snapshot_a.value
        b == snapshot_b.value
        saved_a == save(1, world)
        s5 == Append(s4, SAVE_SNAPSHOT(tag, venue_a, a.best_yes.price, a.best_no.price,
                                       saved_a.kind = "return"))
    IN
    IF saved_a.kind = "raise" THEN except_clause(s5, saved_a)
    ELSE
    LET saved_b == save(2, world)
        s6 == Append(s5, SAVE_SNAPSHOT(tag, venue_b, b.best_yes.price, b.best_no.price,
                                       saved_b.kind = "return"))
    IN
    IF saved_b.kind = "raise" THEN except_clause(s6, saved_b)
    ELSE
    assign(calc_edge(a, b, None_dict), LAMBDA edge :
    LET s7 == Append(s6, CALC_EDGE(edge))
    IN
    IF edge.kind = "raise" THEN except_clause(s7, edge)
    ELSE
    LET yes_no == direction(venue_a, venue_b, a, b)
        saved_edge == save(3, world)
        s8 == Append(s7, SAVE_EDGE(tag, yes_no[1], yes_no[2], edge.value,
                                   saved_edge.kind = "return"))
    IN
    IF saved_edge.kind = "raise" THEN except_clause(s8, saved_edge)
    ELSE IF ~(edge.value >= threshold_decimal) THEN s8
    ELSE
    LET message ==
            IF yes_no = <<venue_a, venue_b>>
            THEN format_alert_message(tag, edge.value, capitalize(venue_a),
                                      capitalize(venue_b), "YES", a.best_yes.price,
                                      "NO", b.best_no.price, bankroll)
            ELSE format_alert_message(tag, edge.value, capitalize(venue_b),
                                      capitalize(venue_a), "YES", b.best_yes.price,
                                      "NO", a.best_no.price, bankroll)
        sent == send(alert_sink, message, world)
        s9 == Append(s8, SEND(message, sent.kind = "return"))
    IN
    IF sent.kind = "raise" THEN except_clause(s9, sent) ELSE s9)))))


\* the pairs (venue_names[i], venue_names[j]), i < j, in the order of the
\* two loops, that keep the first venue fixed
RECURSIVE pairs_with_first_only(_, _, _)
pairs_with_first_only(venue_names, i, j) ==
    IF i > 1 \/ j > Len(venue_names) THEN <<>>
    ELSE <<<<venue_names[i], venue_names[j]>>>>
         \o pairs_with_first_only(venue_names, i, j + 1)

\* the pairs (venue_names[i], venue_names[j]), i < j, in the order of the
\* two loops of check_for_arbitrage, from (i, j) on
RECURSIVE venue_pairs(_, _, _)
venue_pairs(venue_names, i, j) ==
    IF i > Len(venue_names) THEN <<>>
    ELSE IF j > Len(venue_names) THEN venue_pairs(venue_names, i + 1, i + 2)
    ELSE <<<<venue_names[i], venue_names[j]>>>> \o venue_pairs(venue_names, i, j + 1)

\* list(venues.keys()): the keys in the order of the registry row
keys_list(venues) == SelectSeq(VENUES, LAMBDA venue : venue \in DOMAIN venues)

\* the calls of check_venue_pair for the pairs, one after the other
RECURSIVE check_pairs(_, _, _, _, _, _, _)
check_pairs(pairs, venues, tag, threshold_decimal, alert_sink, bankroll, world) ==
    IF pairs = <<>> THEN <<>>
    ELSE LET venue_a == Head(pairs)[1]
             venue_b == Head(pairs)[2]
         IN  check_venue_pair(venue_a, venue_b, venues[venue_a], venues[venue_b],
                              tag, threshold_decimal, alert_sink, bankroll, world)
             \o check_pairs(Tail(pairs), venues, tag, threshold_decimal,
                            alert_sink, bankroll, world)

\* the body of the loop over the registry rows, for one row
check_entry(entry, threshold_decimal, alert_sink, bankroll, world) ==
    assign(dict_get(entry, s_tag, None), LAMBDA tag :
    IF tag = None \/ tag = <<>> THEN <<>>
    ELSE assign(venues_for(tag), LAMBDA venues :
         IF Cardinality(DOMAIN venues) < MIN_VENUES_FOR_ARBITRAGE
         THEN <<>>
         ELSE assign(keys_list(venues), LAMBDA venue_names :
              check_pairs(venue_pairs(venue_names, 1, 2), venues, tag,
                          threshold_decimal, alert_sink, bankroll, world))))

RECURSIVE check_entries(_, _, _, _, _)
check_entries(registry, threshold_decimal, alert_sink, bankroll, world) ==
    IF registry = <<>> THEN <<>>
    ELSE check_entry(Head(registry), threshold_decimal, alert_sink, bankroll, world)
         \o check_entries(Tail(registry), threshold_decimal, alert_sink, bankroll, world)

\* check_for_arbitrage(threshold, bankroll): the calls it makes; the registry
\* file is the one the matcher has loaded
check_for_arbitrage(threshold, bankroll, world) ==
    LET alert_sink == get_alert_sink(world)
        registry == REGISTRY
    IN  IF registry = <<>>
        THEN <<ECHO("No events found in registry.")>>
        ELSE check_entries(registry, threshold, alert_sink, bankroll, world)


----------------------------------------------------------------------------
(* Orchestrator: registries, worlds and calls *)

\* a registry with a tag no venue lists and a tag one venue lists
SPARSE_REGISTRY ==
    << registry_entry(s_OTHER_TAG, None, None, None),
       registry_entry(s_SPX_31MAY5500, s_SPX_5500_31MAY25, None, None),
       registry_entry(s_FOMC_JUN25BP, s_FED_25BP_JUN25, s_8973, s_8973) >>

ScanRegistries ==
    {<<>>, MOCK_REGISTRY, NUMERIC_ID_REGISTRY, DUPLICATE_REGISTRY, SPARSE_REGISTRY}

\* one best bid of a Kalshi book
kalshi_bids(k, cents) == (k :> <<[price |-> cents * ONE, size |-> 10]>>)

\* Kalshi payloads: both sides quoted, and a side with no bid
ScanKalshiPayloads ==
    { ("event" :> [close_time |-> isoformat(AWARE)]) @@
      ("market" :> ([ticker |-> s_BTC_70K_31MAY25, title |-> <<>>] @@ yes_bids @@ no_bids)) :
        yes_bids \in {EMPTY_DICT, kalshi_bids("yes_bids", 40)},
        no_bids \in {EMPTY_DICT, kalshi_bids("no_bids", 55)} }

\* Nadex payloads: both sides quoted, and one with no expiry
ScanNadexPayloads ==
    { ("contract" :> ([id |-> s_BTC_70000_31MAY25, name |-> <<>>,
                       yes_price |-> 45 * ONE, no_price |-> no_price * ONE] @@ expiry)) :
        no_price \in {30, 55}, expiry \in opt("expiry", {isoformat(AWARE)}) }

ScanPredictItPayloads ==
    { ("market" :> [id |-> 8973, dateEnd |-> isoformat(AWARE),
                    contracts |-> <<[id |-> 1, name |-> <<>>,
                                     bestBuyYesCost |-> 50 * Cent,
                                     bestBuyNoCost |-> no_cost * Cent]>>]) :
        no_cost \in {30, 50} }

ScanReplies(payloads) ==
    {Raise("RequestException", <<>>)} \cup {Return(raw) : raw \in payloads}

Worlds ==
    { [replies |-> (s_kalshi :> kalshi) @@ (s_nadex :> nadex) @@ (s_predictit :> predictit),
       now |-> now, db_fails_at |-> db_fails_at, webhook |-> slack[1], slack_up |-> slack[2]] :
        kalshi \in ScanReplies(ScanKalshiPayloads),
        nadex \in ScanReplies(ScanNadexPayloads),
        predictit \in ScanReplies(ScanPredictItPayloads),
        now \in {MaxClock},
        db_fails_at \in 0..3,
        slack \in {<<FALSE, TRUE>>, <<TRUE, TRUE>>, <<TRUE, FALSE>>} }

Thresholds == {0, 5 * Cent}

\* the rows of the registry and, of each, the pairs of keys that hold a symbol
RegistryPairs ==
    { <<i, venue_a, venue_b>> \in (DOMAIN REGISTRY) \X VenueKeys \X VenueKeys :
        /\ venue_a # venue_b
        /\ REGISTRY[i][venue_a] # None
        /\ REGISTRY[i][venue_b] # None }

\* the scanner checks one pair of venues of a registry row
Call_check_venue_pair ==
    /\ pc = "idle"
    /\ \E p \in RegistryPairs, threshold \in Thresholds, world \in Worlds :
        LET entry == REGISTRY[p[1]]
        IN  /\ call' = [fn |-> "check_venue_pair", venue_a |-> p[2], venue_b |-> p[3],
                        tag |-> entry[s_tag], threshold |-> threshold, world |-> world]
            /\ effects' = check_venue_pair(p[2], p[3], entry[p[2]], entry[p[3]],
                                           entry[s_tag], threshold,
                                           get_alert_sink(world), None_bankroll, world)
    /\ ret' = Return(None)
    /\ pc' = "returned"
    /\ UNCHANGED <<FEE_DATA, REGISTRY, context>>

\* the scanner makes one scan of the registry
Call_check_for_arbitrage ==
    /\ pc = "idle"
    /\ \E threshold \in Thresholds, world \in Worlds :
        /\ call' = [fn |-> "check_for_arbitrage", threshold |-> threshold,
                    world |-> world]
        /\ effects' = check_for_arbitrage(threshold, None_bankroll, world)
    /\ ret' = Return(None)
    /\ pc' = "returned"
    /\ UNCHANGED <<FEE_DATA, REGISTRY, context>>

InitScan ==
    /\ FEE_DATA = FIXTURE_FEES
    /\ REGISTRY \in ScanRegistries
    /\ pc = "idle"
    /\ call = NoCall
    /\ ret = NoRet
    /\ context = MAIN_CONTEXT
    /\ effects = <<>>

NextScan == Call_check_venue_pair \/ Call_check_for_arbitrage \/ Done

SpecScan == InitScan /\ [][NextScan]_vars


----------------------------------------------------------------------------
(* Orchestrator: properties of a pair check *)

AfterPairCheck == pc = "returned" /\ call.fn = "check_venue_pair"

\* the calls of one kind in the log, and those of them that returned
StepsOf(op) == {i \in DOMAIN effects : effects[i].op = op}

Completed(op) == {i \in StepsOf(op) : effects[i].ok}

\* the direction the orchestrator derives for the snapshots of a calc_edge call
RecordedDirection ==
    direction("venue_a", "venue_b", call.snapshot_a, call.snapshot_b)

\* C23: whenever calc_edge returns a positive edge, the (YES venue, NO venue)
\* the orchestrator records for the same two snapshots is a direction whose
\* fee-adjusted candidate equals that edge, chosen by the comparison
\* calc_edge made: A-yes/B-no if and only if its candidate is >= the other.
C23_DirectionConsistentWithEdge ==
    (AfterCalcEdge /\ ret.kind = "return" /\ ret.value > 0) =>
        /\ RecordedDirection = <<"venue_a", "venue_b">> <=> CandidateAB >= CandidateBA
        /\ RecordedDirection = <<"venue_a", "venue_b">> => CandidateAB = ret.value
        /\ RecordedDirection = <<"venue_b", "venue_a">> => CandidateBA = ret.value

\* both payloads were fetched and normalized
BothNormalized == Cardinality(Completed("to_snapshot")) = 2

\* the database takes every save and the alert sink every message
WorldWorks ==
    /\ call.world.db_fails_at = 0
    /\ call.world.webhook => call.world.slack_up

\* C24: in a pair check whose two fetches and normalizations succeed, both
\* snapshots are saved and exactly one edge record is saved whatever the
\* threshold, and exactly one alert is sent when the edge is at least the
\* threshold and none when it is below.
C24_SnapshotsEdgeAndAlertPerPair ==
    (AfterPairCheck /\ BothNormalized /\ WorldWorks) =>
        /\ Cardinality(Completed("save_snapshot")) = 2
        /\ Cardinality(Completed("save_edge")) = 1
        /\ \A i \in Completed("save_edge") :
                Cardinality(Completed("send")) =
                    IF effects[i].edge >= call.threshold THEN 1 ELSE 0

\* the quote is the missing-quote fallback of the normalizer
IsFallback(quote) == quote.price = 0 /\ quote.size = 0

\* the snapshot the pair check normalized for the exchange
SnapshotOf(exchange) ==
    effects[CHOOSE i \in Completed("to_snapshot") : effects[i].exchange = exchange]
        .outcome.value

\* buying YES on one exchange and NO on the other buys a fallback quote
BuysFallback(yes_exchange, no_exchange) ==
    \/ IsFallback(SnapshotOf(yes_exchange).best_yes)
    \/ IsFallback(SnapshotOf(no_exchange).best_no)

PAIR_ORDER ==
    <<"fetch_market_data", "fetch_market_data", "to_snapshot", "to_snapshot",
      "save_snapshot", "save_snapshot", "calc_edge", "save_edge", "send">>

PairSteps ==
    SelectSeq(effects, LAMBDA step : step.op \notin {"check_venue_pair", "echo"})

----------------------------------------------------------------------------
(* Orchestrator: properties of a scan *)

AfterScan == pc = "returned" /\ call.fn = "check_for_arbitrage"

\* the pair checks of a tag for the two venues, in either order
ChecksOf(tag, venue_a, venue_b) ==
    {i \in StepsOf("check_venue_pair") :
        /\ effects[i].tag = tag
        /\ {effects[i].venue_a, effects[i].venue_b} = {venue_a, venue_b}}

RegistryTags == {REGISTRY[i][s_tag] : i \in DOMAIN REGISTRY}

\* the last call of the pair check that starts at position i of the log
EndOfCheck(i) ==
    LET later == {j \in StepsOf("check_venue_pair") : j > i}
    IN  IF later = {} THEN Len(effects)
        ELSE (CHOOSE j \in later : \A k \in later : j <= k) - 1

\* every pair of venues of every tag with two venue symbols or more is
\* checked once, a check with a failed call ends with its log line and the
\* scan goes on, and nothing is done for any other tag
ScanChecksEveryPairOnce ==
    /\ \A tag \in RegistryTags :
            LET venues == venues_for(tag)
            IN  \A venue_a, venue_b \in DOMAIN venues :
                    venue_a # venue_b =>
                        Cardinality(ChecksOf(tag, venue_a, venue_b)) = 1
    /\ \A i \in StepsOf("check_venue_pair") :
            /\ effects[i].tag \in RegistryTags
            /\ {effects[i].venue_a, effects[i].venue_b} \subseteq
                    DOMAIN venues_for(effects[i].tag)
            /\ effects[i].venue_a # effects[i].venue_b
            /\ (\E j \in (i + 1)..EndOfCheck(i) :
                    effects[j].op # "echo" /\ ~effects[j].ok)
                    => effects[EndOfCheck(i)].op = "echo"
    /\ \A i \in DOMAIN effects :
            effects[i].op \notin {"check_venue_pair", "echo"}
                => \E j \in StepsOf("check_venue_pair") : j < i
    /\ REGISTRY # <<>> => (effects # <<>> => effects[1].op = "check_venue_pair")

\* C25 as stated: one scan checks every unordered pair of venues of every
\* registry tag that has at least two venue symbols exactly once; a failure
\* in one pair is logged and skipped and the scan goes on; a tag with fewer
\* than two venue symbols causes no fetch, save or alert.
C25_ScanChecksEveryPairOnce == AfterScan => ScanChecksEveryPairOnce

\* each tag is on one row of the registry
TagsDistinct ==
    \A i, j \in DOMAIN REGISTRY : i # j => REGISTRY[i][s_tag] # REGISTRY[j][s_tag]

\* C25, amended: the same for a registry in which each tag is on one row.
C25_ScanChecksEveryPairOnceOfDistinctTags ==
    (AfterScan /\ TagsDistinct) => ScanChecksEveryPairOnce

\* C25 witness: a scan of a registry of distinct tags in which a pair check
\* failed and another pair was checked after it
C25_Witness ==
    /\ AfterScan
    /\ TagsDistinct
    /\ \E i, j \in StepsOf("check_venue_pair") :
            /\ i < j
            /\ effects[EndOfCheck(i)].op = "echo"
            /\ effects[j - 1].op = "echo"
    /\ \E tag \in RegistryTags : Cardinality(DOMAIN venues_for(tag)) < 2
    /\ \E tag \in RegistryTags : Cardinality(DOMAIN venues_for(tag)) = 3


----------------------------------------------------------------------------
(* Command line: cli of main.py *)

\* what a call made by cli does: it returns, it raises one of the exceptions
\* cli has a clause for, or SIGINT arrives while it runs
RETURNS == "returns"

Exceptions == {"ValueError", "KeyError", "ConnectionError", "Exception"}

\* signal_handler calls sys.exit(0), which raises SystemExit in the main
\* thread; KeyboardInterrupt is what an interrupt raises without the handler
Interrupts == {"SystemExit", "KeyboardInterrupt"}

CallOutcomes == {RETURNS} \cup Exceptions \cup Interrupts

\* a cli that exits with status 0 whatever ended the loop
exit_status_always_zero(error) == 0

\* the exit status of the process when error leaves the try block of cli
exit_status(error) ==
    CASE error = "KeyboardInterrupt" -> 0
      [] error = "SystemExit" -> 0
      [] OTHER -> 1

Exit(status) == [kind |-> "exit", status |-> status]

SCAN(outcome) == [op |-> "check_for_arbitrage", outcome |-> outcome]
TIME_SLEEP(seconds, outcome) ==
    [op |-> "time.sleep", seconds |-> seconds, outcome |-> outcome]

MaxScans == 5

Intervals == {30, 60}

\* the process starts: the options are read and init_db() is called, outside
\* the try block
Cli_start ==
    /\ pc = "idle"
    /\ \E once \in BOOLEAN, interval \in Intervals, init_db \in {RETURNS, "Exception"} :
        /\ call' = [fn |-> "cli", once |-> once, interval |-> interval,
                    init_db |-> init_db]
        /\ IF init_db = RETURNS
           THEN pc' = "scan" /\ ret' = NoRet
           ELSE pc' = "returned" /\ ret' = Exit(1)
    /\ effects' = <<>>
    /\ UNCHANGED <<FEE_DATA, REGISTRY, context>>

\* check_for_arbitrage(threshold, bankroll, once=once)
Cli_scan ==
    /\ pc = "scan"
    /\ Len(effects) < 2 * MaxScans
    /\ \E outcome \in CallOutcomes :
        /\ effects' = Append(effects, SCAN(outcome))
        /\ IF outcome # RETURNS
           THEN pc' = "returned" /\ ret' = Exit(exit_status(outcome))
           ELSE IF call.once
           THEN pc' = "returned" /\ ret' = Exit(0)
           ELSE pc' = "sleep" /\ ret' = ret
    /\ UNCHANGED <<FEE_DATA, REGISTRY, context, call>>

\* time.sleep(interval)
Cli_sleep ==
    /\ pc = "sleep"
    /\ \E outcome \in CallOutcomes :
        /\ effects' = Append(effects, TIME_SLEEP(call.interval, outcome))
        /\ IF outcome # RETURNS
           THEN pc' = "returned" /\ ret' = Exit(exit_status(outcome))
           ELSE pc' = "scan" /\ ret' = ret
    /\ UNCHANGED <<FEE_DATA, REGISTRY, context, call>>

InitCli ==
    /\ FEE_DATA = NO_FEES
    /\ REGISTRY = <<>>
    /\ pc = "idle"
    /\ call = NoCall
    /\ ret = NoRet
    /\ context = MAIN_CONTEXT
    /\ effects = <<>>

NextCli == Cli_start \/ Cli_scan \/ Cli_sleep \/ Done

SpecCli == InitCli /\ [][NextCli]_vars

----------------------------------------------------------------------------
(* Command line: properties *)

CliRunning == pc \in {"scan", "sleep"} /\ call.fn = "cli"

CliExited == pc = "returned" /\ call.fn = "cli"

\* C27: with --once cli makes exactly one scan and exits with status 0
\* without sleeping; without --once it alternates scan, sleep(interval),
\* scan, ... starting with a scan and does not stop on its own; an exception
\* escaping a scan or a sleep ends the process with status 1 and an
\* interrupt ends it with status 0.
C27_CliLoop ==
    (CliRunning \/ CliExited) =>
        /\ \A i \in DOMAIN effects :
                /\ i % 2 = 1 => effects[i].op = "check_for_arbitrage"
                /\ i % 2 = 0 => /\ effects[i].op = "time.sleep"
                                /\ effects[i].seconds = call.interval
                /\ i < Len(effects) => effects[i].outcome = RETURNS
        /\ CliRunning =>
                /\ \A i \in DOMAIN effects : effects[i].outcome = RETURNS
                /\ pc = "scan" <=> Len(effects) % 2 = 0
                /\ ~call.once \/ effects = <<>>
        /\ (CliExited /\ call.init_db = RETURNS) =>
                LET last == effects[Len(effects)]
                IN  /\ effects # <<>>
                    /\ call.once => Len(effects) = 1
                    /\ (call.once /\ last.outcome = RETURNS) => ret = Exit(0)
                    /\ ~call.once => last.outcome # RETURNS
                    /\ last.outcome \in Exceptions => ret = Exit(1)
                    /\ last.outcome \in Interrupts => ret = Exit(0)

\* C27 witness: the loop ran scan, sleep, scan and the second sleep raised
C27_Witness ==
    /\ CliExited
    /\ ~call.once
    /\ Len(effects) = 4
    /\ effects[4].outcome = "Exception"
    /\ ret = Exit(1)

====
